---- MODULE Spec2Model ----
(***************************************************************************)
(* A model of the SSTMap C extension (src/sstmap/_sstmap_ext.c): the       *)
(* minimum-image distance kernels, the voxel assignment and the grid-wide  *)
(* nearest-neighbour entropy estimator.                                    *)
(*                                                                         *)
(* Numbers.  Lengths are integers in units of a quarter length unit, so    *)
(* the voxel edge 0.5 is 2 and the tolerance -1.5 is -6; every comparison  *)
(* of the code is a comparison of such integers.  Rational intermediate    *)
(* values (fractional coordinates) are kept as numerator and denominator.  *)
(***************************************************************************)
EXTENDS Integers, Sequences, FiniteSets, TLC

VARIABLES
    pc,              \* position of the call in progress
    \* ---- direct calls of dist_mic_squared / dist_mic_tric_squared ----
    uc_vec,          \* the 3x3 cell, row-major, as a 9-tuple
    mic_x, mic_y,    \* the two points
    d_ortho,         \* value returned by dist_mic_squared
    d_tric,          \* value returned by dist_mic_tric_squared, [num, den]
    mic_ops,         \* what was done to the points since the first call
    \* ---- assign_voxels ----
    grid_dim, grid_max, grid_orig,
    n_frames, n_wat, wat_oxygen_ids, coords,
    i_frame, i_wat,
    frame_data,      \* the output list of <<voxel_id, wat_id>>
    assign_last,     \* the locals of the last loop body that ran
    \* ---- getNNTrEntropy ----
    ent_in,          \* num_frames, voxel_vol, ref_dens, temp
    grid_dims,       \* <<nx, ny, nz>>
    voxel_data,      \* the voxel table: voxel -> column 0..12 -> value
    voxel_data0,     \* the voxel table as it was passed in
    voxel_O_coords,  \* voxel -> list of positions
    voxel_quarts,    \* voxel -> list of orientations
    voxel,           \* the loop variable of line 504
    ent_acc,         \* the accumulators declared at lines 464-470
    ent_last,        \* what the last iteration of the voxel loop did
    ent_divs,        \* the quotients by a molecule count the last step evaluated
    ent_task,        \* voxel -> how far the pass over that voxel has come
    ent_ref,         \* what the passes wrote when they ran on the table as passed in
    \* ---- calculate_energy ----
    en_wat,          \* the index of the first solvent atom
    en_dist, en_chg, en_acoeff, en_bcoeff,   \* the four arrays, site -> atom -> value
    en_in,           \* the four arrays as they were passed in
    en_i,            \* the loop variable of line 1492
    \* ---- get_dist_matrix ----
    dm_nwtot,        \* the number of points
    dm_coords,       \* point -> <<x, y, z>>
    dm_coords0,      \* the coordinates as they were passed in
    dist_matrix,     \* n -> l -> value
    dist_matrix0,    \* the matrix as it was passed in
    dm_n,            \* the loop variable of line 1445
    \* ---- getNNOrEntropy ----
    or_nwtot,        \* the count passed by the caller
    voxel_wat_Eulers,\* molecule -> <<theta, phi, psi>>
    or_n,            \* the loop variable of line 425
    voxel_dTSor,     \* the running sum
    or_terms,        \* molecule -> what its pass of the outer loop added
    \* ---- get_pairwise_distances ----
    pd_wat,          \* the index of the first solvent atom
    pd_targets,      \* the target atom ids
    pd_coords,       \* atom -> <<x, y, z>>
    pd_uc,           \* the cell read at lines 340-348
    is_ortho,        \* the flag of lines 349-354
    inv_uc_vec,      \* the inverse cell once computed
    dist_array,      \* site -> target -> value
    dist_array0,     \* the array as it was passed in
    pd_pair,         \* position of the double loop, a pair number
    pd_log,          \* the inversions and distance calls made so far, in order
    ret              \* the value the call returned

micVars    == <<uc_vec, mic_x, mic_y, d_ortho, d_tric, mic_ops>>
assignVars == <<grid_dim, grid_max, grid_orig, n_frames, n_wat, wat_oxygen_ids,
                coords, i_frame, i_wat, frame_data, assign_last>>
entVars    == <<ent_in, grid_dims, voxel_data, voxel_data0, voxel_O_coords,
                voxel_quarts, voxel, ent_acc, ent_last, ent_divs, ent_task, ent_ref>>
energyVars == <<en_wat, en_dist, en_chg, en_acoeff, en_bcoeff, en_in, en_i>>
dmVars     == <<dm_nwtot, dm_coords, dm_coords0, dist_matrix, dist_matrix0, dm_n>>
orVars     == <<or_nwtot, voxel_wat_Eulers, or_n, voxel_dTSor, or_terms>>
pdVars     == <<pd_wat, pd_targets, pd_coords, pd_uc, is_ortho, inv_uc_vec,
                dist_array, dist_array0, pd_pair, pd_log>>
kernVars   == <<energyVars, dmVars, orVars, pdVars>>
vars       == <<pc, ret, micVars, assignVars, entVars, kernVars>>

Axes == 1..3
Idle == <<>>        \* value of the variables of a call that is not running
NoRet == -1         \* value of ret while the call has not returned; pc tells whether it has

Abs(n) == IF n < 0 THEN -n ELSE n

(***************************************************************************)
(* Bounds of the model.                                                    *)
(***************************************************************************)
MaxBox   == 2     \* box lengths are 1..MaxBox on every axis
MaxCoord == 2     \* point coordinates are 0..MaxCoord on every axis
MaxShift == 1     \* lattice translations applied to both points: 1..MaxShift
MaxDim   == 2     \* assign_voxels: grid dimensions are 1..MaxDim on every axis
MaxN     == 4     \* getNNTrEntropy: grid dimensions are 1..MaxN on every axis
MaxCount == 2     \* molecules per voxel of a uniformly filled grid: 0..MaxCount
MaxPos   == 3     \* molecule positions are 0..MaxPos along x
MaxAng   == 1     \* molecule orientations are rotations by 0..MaxAng about one axis
MaxFrames == 2    \* num_frames is 1 or MaxFrames

(***************************************************************************)
(* dist_mic_squared, lines 170-189.                                        *)
(***************************************************************************)
\* One axis of dist_mic_squared with the second test against the whole box
\* length instead of half of it.
mic_wrap_full(dx, b) ==
    IF 2 * dx > b THEN dx - b
    ELSE IF dx < -b THEN dx + b
    ELSE dx

\* if (dx > *b1/2.0) dx -= *b1; else if (dx < -*b1/2.0) dx += *b1;
mic_wrap(dx, b) ==
    IF 2 * dx > b THEN dx - b
    ELSE IF 2 * dx < -b THEN dx + b
    ELSE dx

dist_mic_squared(x, y, b) ==
    LET dx == mic_wrap(x[1] - y[1], b[1])
        dy == mic_wrap(x[2] - y[2], b[2])
        dz == mic_wrap(x[3] - y[3], b[3])
    IN  (dx * dx) + (dy * dy) + (dz * dz)

(***************************************************************************)
(* invert_matrix, matrix_vector_product, dist_mic_tric_squared,            *)
(* lines 43-146.  The inverse is the adjugate over the determinant, with   *)
(* the denominator made positive.                                          *)
(***************************************************************************)
matrix_vector_product(m, v) ==
    << m[1] * v[1] + m[2] * v[2] + m[3] * v[3],
       m[4] * v[1] + m[5] * v[2] + m[6] * v[3],
       m[7] * v[1] + m[8] * v[2] + m[9] * v[3] >>

Det3(m) ==
      m[1] * (m[5] * m[9] - m[6] * m[8])
    - m[2] * (m[4] * m[9] - m[6] * m[7])
    + m[3] * (m[4] * m[8] - m[5] * m[7])

Adj3(m) ==
    << m[5] * m[9] - m[6] * m[8], m[3] * m[8] - m[2] * m[9], m[2] * m[6] - m[3] * m[5],
       m[6] * m[7] - m[4] * m[9], m[1] * m[9] - m[3] * m[7], m[3] * m[4] - m[1] * m[6],
       m[4] * m[8] - m[5] * m[7], m[2] * m[7] - m[1] * m[8], m[1] * m[5] - m[2] * m[4] >>

\* The inverse of a non-singular matrix as [num |-> 9-tuple, den |-> n], den > 0.
invert_matrix(m) ==
    LET d == Det3(m)
    IN  IF d > 0 THEN [num |-> Adj3(m), den |-> d]
        ELSE [num |-> [k \in 1..9 |-> -Adj3(m)[k]], den |-> -d]

\* lines 104-109 with the fraction cut off toward zero instead of floor()
FracWrap_trunc(n, den) ==
    [a \in Axes |-> IF n[a] >= 0 THEN n[a] % den ELSE -((-n[a]) % den)]

\* x_f[i] - floor(x_f[i]) for x_f = n / den: the numerator of the wrapped value.
FracWrap(n, den) == [a \in Axes |-> n[a] % den]

SqNorm(u, v) ==
    (u[1] - v[1]) * (u[1] - v[1]) + (u[2] - v[2]) * (u[2] - v[2])
    + (u[3] - v[3]) * (u[3] - v[3])

nc == <<-1, 0, 1>>

\* The three nested loops of lines 125-142, image idx = 9*i + 3*j + k.
RECURSIVE tric_scan(_, _, _, _, _, _)
tric_scan(idx, n_dist2, x_r, y_f, uc, den) ==
    IF idx = 27 THEN n_dist2
    ELSE LET i == (idx \div 9) + 1
             j == ((idx \div 3) % 3) + 1
             k == (idx % 3) + 1
             t_y_f == << y_f[1] + nc[i] * den, y_f[2] + nc[j] * den, y_f[3] + nc[k] * den >>
             y_r == matrix_vector_product(uc, t_y_f)
             t_dist2 == SqNorm(x_r, y_r)
         IN  tric_scan(idx + 1, IF t_dist2 <= n_dist2 THEN t_dist2 ELSE n_dist2,
                       x_r, y_f, uc, den)

\* Returns the squared distance as [num, den]: all real-space vectors carry the
\* denominator inv.den, the squared distance inv.den^2.
dist_mic_tric_squared(x, y, uc, inv) ==
    LET x_f == FracWrap(matrix_vector_product(inv.num, x), inv.den)
        y_f == FracWrap(matrix_vector_product(inv.num, y), inv.den)
        x_r == matrix_vector_product(uc, x_f)
        y_r == matrix_vector_product(uc, y_f)
    IN  [num |-> tric_scan(0, SqNorm(x_r, y_r), x_r, y_f, uc, inv.den),
         den |-> inv.den * inv.den]

BoxOf(uc) == << uc[1], uc[5], uc[9] >>
DiagCell(b) == << b[1], 0, 0, 0, b[2], 0, 0, 0, b[3] >>

(***************************************************************************)
(* assign_voxels, lines 217-312.                                           *)
(***************************************************************************)
VoxelEdge == 2      \* 0.5
NegTol    == -6     \* -1.5

\* lines 289-291 with the quotient rounded to the nearest integer
grid_index_round(t) == IF t >= 0 THEN (t + 1) \div VoxelEdge ELSE -((1 - t) \div VoxelEdge)

\* (int)(t / 0.5): the C conversion truncates toward zero.
grid_index(t) == IF t >= 0 THEN t \div VoxelEdge ELSE -((-t) \div VoxelEdge)

\* line 283-284
in_extent(t, gmax) ==
    /\ t[1] <= gmax[1] /\ t[2] <= gmax[2] /\ t[3] <= gmax[3]
    /\ t[1] >= NegTol /\ t[2] >= NegTol /\ t[3] >= NegTol

\* line 286 with the test widened to the tolerance band
non_negative_tol(t) == t[1] >= NegTol /\ t[2] >= NegTol /\ t[3] >= NegTol

\* line 286
non_negative(t) == t[1] >= 0 /\ t[2] >= 0 /\ t[3] >= 0

\* line 293 with <= for <
in_grid_le(gi, dim) == gi[1] <= dim[1] /\ gi[2] <= dim[2] /\ gi[3] <= dim[3]

\* line 293
in_grid(gi, dim) == gi[1] < dim[1] /\ gi[2] < dim[2] /\ gi[3] < dim[3]

\* line 296 with the x stride taken from the x dimension
flatten_nx(gi, dim) == (gi[1] * dim[1] + gi[2]) * dim[3] + gi[3]

\* line 296
flatten(gi, dim) == (gi[1] * dim[2] + gi[2]) * dim[3] + gi[3]

\* Lines 283-296 for one translated coordinate: whether an entry is appended,
\* and its voxel id.
assign_one(t, dim, gmax) ==
    LET gi == [a \in Axes |-> grid_index(t[a])]
    IN  IF in_extent(t, gmax) /\ non_negative(t) /\ in_grid(gi, dim)
        THEN [emit |-> TRUE, voxel_id |-> flatten(gi, dim)]
        ELSE [emit |-> FALSE, voxel_id |-> 0]

(***************************************************************************)
(* Direct calls of the two distance routines on a diagonal cell.           *)
(***************************************************************************)
Points == [Axes -> 0..MaxCoord]
Boxes  == [Axes -> 1..MaxBox]
Tup(f) == << f[1], f[2], f[3] >>

AssignIdle ==
    /\ grid_dim = Idle /\ grid_max = Idle /\ grid_orig = Idle
    /\ n_frames = 0 /\ n_wat = 0 /\ wat_oxygen_ids = Idle /\ coords = Idle
    /\ i_frame = 0 /\ i_wat = 0 /\ frame_data = << >> /\ assign_last = Idle

MicIdle ==
    /\ uc_vec = Idle /\ mic_x = Idle /\ mic_y = Idle
    /\ d_ortho = 0 /\ d_tric = Idle /\ mic_ops = << >>

EntIdle ==
    /\ ent_in = Idle /\ grid_dims = Idle /\ voxel_data = Idle /\ voxel_data0 = Idle
    /\ voxel_O_coords = Idle /\ voxel_quarts = Idle /\ voxel = 0
    /\ ent_acc = Idle /\ ent_last = Idle /\ ent_divs = {}
    /\ ent_task = Idle /\ ent_ref = Idle

EnergyIdle ==
    /\ en_wat = 0 /\ en_dist = Idle /\ en_chg = Idle /\ en_acoeff = Idle
    /\ en_bcoeff = Idle /\ en_in = Idle /\ en_i = 0

DistMatrixIdle ==
    /\ dm_nwtot = 0 /\ dm_coords = Idle /\ dm_coords0 = Idle
    /\ dist_matrix = Idle /\ dist_matrix0 = Idle /\ dm_n = 0

OrIdle ==
    /\ or_nwtot = 0 /\ voxel_wat_Eulers = Idle /\ or_n = 0
    /\ voxel_dTSor = 0 /\ or_terms = Idle

PairIdle ==
    /\ pd_wat = 0 /\ pd_targets = Idle /\ pd_coords = Idle /\ pd_uc = Idle
    /\ is_ortho = FALSE /\ inv_uc_vec = Idle /\ dist_array = Idle
    /\ dist_array0 = Idle /\ pd_pair = 0 /\ pd_log = << >>

KernIdle == EnergyIdle /\ DistMatrixIdle /\ OrIdle /\ PairIdle

InitMic ==
    /\ pc = "mic_start"
    /\ ret = NoRet
    /\ \E b \in Boxes : uc_vec = DiagCell(Tup(b))
    /\ \E x \in Points : mic_x = Tup(x)
    /\ \E y \in Points : mic_y = Tup(y)
    /\ d_ortho = 0
    /\ d_tric = Idle
    /\ mic_ops = << >>
    /\ AssignIdle
    /\ EntIdle
    /\ KernIdle

\* d = dist_mic_squared(x, y, &uc_vec[0], &uc_vec[4], &uc_vec[8])   (line 394)
MicOrtho ==
    /\ pc = "mic_start"
    /\ d_ortho' = dist_mic_squared(mic_x, mic_y, BoxOf(uc_vec))
    /\ pc' = "mic_ortho"
    /\ UNCHANGED <<ret, uc_vec, mic_x, mic_y, d_tric, mic_ops, assignVars, entVars, kernVars>>

\* d = dist_mic_tric_squared(x, y, &uc_vec[0], &inv_uc_vec[0])      (line 398)
MicTric ==
    /\ pc = "mic_ortho"
    /\ d_tric' = dist_mic_tric_squared(mic_x, mic_y, uc_vec, invert_matrix(uc_vec))
    /\ pc' = "mic_both"
    /\ UNCHANGED <<ret, uc_vec, mic_x, mic_y, d_ortho, mic_ops, assignVars, entVars, kernVars>>

\* dist_mic_squared called again with the two points exchanged; d_tric holds
\* no value for the new arguments.
MicSwap ==
    /\ pc = "mic_both"
    /\ mic_ops = << >>
    /\ mic_x' = mic_y
    /\ mic_y' = mic_x
    /\ d_ortho' = dist_mic_squared(mic_y, mic_x, BoxOf(uc_vec))
    /\ d_tric' = Idle
    /\ mic_ops' = << "swap" >>
    /\ UNCHANGED <<pc, ret, uc_vec, assignVars, entVars, kernVars>>

LatticeVector(uc, a) == << uc[3 * a - 2], uc[3 * a - 1], uc[3 * a] >>
Translate(p, k, v) == << p[1] + k * v[1], p[2] + k * v[2], p[3] + k * v[3] >>

\* dist_mic_squared called again with both points moved by k lattice vectors.
MicShift ==
    /\ pc = "mic_both"
    /\ mic_ops \in { << >>, << "swap" >> }
    /\ \E a \in Axes, k \in 1..MaxShift :
         LET v  == LatticeVector(uc_vec, a)
             x2 == Translate(mic_x, k, v)
             y2 == Translate(mic_y, k, v)
         IN  /\ mic_x' = x2
             /\ mic_y' = y2
             /\ d_ortho' = dist_mic_squared(x2, y2, BoxOf(uc_vec))
             /\ d_tric' = Idle
    /\ mic_ops' = Append(mic_ops, "shift")
    /\ UNCHANGED <<pc, ret, uc_vec, assignVars, entVars, kernVars>>

NextMic == MicOrtho \/ MicTric \/ MicSwap \/ MicShift
SpecMic == InitMic /\ [][NextMic]_vars

(***************************************************************************)
(* assign_voxels as a state machine: one action per body of the inner      *)
(* loop, one for the return.                                               *)
(***************************************************************************)
Dims == [Axes -> 1..MaxDim]

\* grid_max as the caller may pass it: the extent of the grid, the extent plus
\* the tolerance, or a value unrelated to the grid.
GridMaxes(dim) ==
    { << VoxelEdge * dim[1], VoxelEdge * dim[2], VoxelEdge * dim[3] >>,
      << VoxelEdge * dim[1] - NegTol, VoxelEdge * dim[2] - NegTol, VoxelEdge * dim[3] - NegTol >> }
    \cup { << g, g, g >> : g \in {-1, 1} }

\* translated coordinates of interest on one axis
TVals ==
    { NegTol - 1, NegTol, -1 } \cup (0 .. VoxelEdge * MaxDim + 1)
    \cup { VoxelEdge * MaxDim - NegTol, VoxelEdge * MaxDim - NegTol + 1 }

Origin == << 1, -2, 3 >>

InitAssign ==
    /\ pc = "assign_loop"
    /\ ret = NoRet
    /\ \E d \in Dims : grid_dim = Tup(d)
    /\ grid_max \in GridMaxes(grid_dim)
    /\ grid_orig = Origin
    /\ n_frames = 1
    /\ n_wat = 1
    /\ wat_oxygen_ids = [i \in 0..(n_wat - 1) |-> 3 * i]
    /\ coords \in [ (0..(n_frames - 1)) \X { wat_oxygen_ids[i] : i \in 0..(n_wat - 1) }
                    -> { << grid_orig[1] + t[1], grid_orig[2] + t[2], grid_orig[3] + t[3] >> :
                           t \in [Axes -> TVals] } ]
    /\ i_frame = 0
    /\ i_wat = 0
    /\ frame_data = << >>
    /\ assign_last = [ran |-> FALSE, frame |-> 0, wat_id |-> 0, t |-> <<0, 0, 0>>,
                      len_before |-> 0]
    /\ MicIdle
    /\ EntIdle
    /\ KernIdle

\* lines 268-309: the body of the inner loop for (i_frame, i_wat)
AssignSite ==
    /\ pc = "assign_loop"
    /\ i_frame < n_frames
    /\ i_wat < n_wat
    /\ LET wat_id == wat_oxygen_ids[i_wat]
           c == coords[<< i_frame, wat_id >>]
           wat_translated == << c[1] - grid_orig[1], c[2] - grid_orig[2], c[3] - grid_orig[3] >>
           r == assign_one(wat_translated, grid_dim, grid_max)
       IN  /\ frame_data' = IF r.emit THEN Append(frame_data, << r.voxel_id, wat_id >>)
                            ELSE frame_data
           /\ assign_last' = [ran |-> TRUE, frame |-> i_frame, wat_id |-> wat_id,
                              t |-> wat_translated, len_before |-> Len(frame_data)]
    /\ IF i_wat + 1 < n_wat
       THEN i_wat' = i_wat + 1 /\ i_frame' = i_frame
       ELSE i_wat' = 0 /\ i_frame' = i_frame + 1
    /\ UNCHANGED <<pc, ret, grid_dim, grid_max, grid_orig, n_frames, n_wat,
                   wat_oxygen_ids, coords, micVars, entVars, kernVars>>

\* line 311
AssignReturn ==
    /\ pc = "assign_loop"
    /\ i_frame = n_frames
    /\ pc' = "assign_done"
    /\ ret' = 1
    /\ UNCHANGED <<micVars, assignVars, entVars, kernVars>>

NextAssign == AssignSite \/ AssignReturn
SpecAssign == InitAssign /\ [][NextAssign]_vars

(***************************************************************************)
(* Properties of assign_voxels.                                            *)
(***************************************************************************)
Floor(t) == t \div VoxelEdge        \* floor(t / 0.5)
Emitted == Len(frame_data) = assign_last.len_before + 1
NothingEmitted == frame_data = SubSeq(frame_data, 1, assign_last.len_before)
LastId == frame_data[Len(frame_data)][1]
NVoxels(dim) == dim[1] * dim[2] * dim[3]
\* the strides of the estimator, lines 497-499
Stride(dim, a) == IF a = 1 THEN dim[2] * dim[3] ELSE IF a = 2 THEN dim[3] ELSE 1
InGridAxis(a) ==
    /\ 0 <= assign_last.t[a]
    /\ assign_last.t[a] <= grid_max[a]
    /\ Floor(assign_last.t[a]) < grid_dim[a]

\* C2: every assignment emitted carries the voxel id (ix*ny + iy)*nz + iz of the
\* floors of the translated coordinate, every index is inside the grid, the id
\* is below nx*ny*nz, and the site one voxel further along an axis gets the id
\* plus the stride of that axis.
C2_VoxelIdIsFlattenedFloor ==
    (pc \in {"assign_loop", "assign_done"} /\ assign_last.ran /\ Emitted) =>
        LET t  == assign_last.t
            ix == Floor(t[1])
            iy == Floor(t[2])
            iz == Floor(t[3])
        IN  /\ LastId = (ix * grid_dim[2] + iy) * grid_dim[3] + iz
            /\ 0 <= ix /\ ix < grid_dim[1]
            /\ 0 <= iy /\ iy < grid_dim[2]
            /\ 0 <= iz /\ iz < grid_dim[3]
            /\ LastId \in 0..(NVoxels(grid_dim) - 1)
            /\ \A k \in 1..Len(frame_data) : frame_data[k][1] \in 0..(NVoxels(grid_dim) - 1)
            /\ \A a \in Axes :
                 LET r == assign_one([t EXCEPT ![a] = @ + VoxelEdge], grid_dim, grid_max)
                 IN  r.emit => r.voxel_id = LastId + Stride(grid_dim, a)

C2_Witness ==
    /\ pc = "assign_done" /\ assign_last.ran /\ Emitted
    /\ grid_dim = << 2, 1, 2 >>
    /\ Floor(assign_last.t[1]) = 1 /\ Floor(assign_last.t[3]) = 1
    /\ LastId = 3

\* C3: an assignment is emitted exactly when on all three axes
\* 0 <= t <= grid_max and floor(t/0.5) < dimension; otherwise nothing is.
C3_EmittedExactlyInsideGrid ==
    (pc \in {"assign_loop", "assign_done"} /\ assign_last.ran) =>
        IF \A a \in Axes : InGridAxis(a) THEN Emitted ELSE NothingEmitted

C3_Witness ==
    /\ pc = "assign_done" /\ assign_last.ran /\ NothingEmitted
    /\ assign_last.t[2] = -1
    /\ InGridAxis(1) /\ InGridAxis(3)
    /\ grid_max[2] >= 0

ImageDist2(x, y, b, n) ==
    LET dx == x[1] - y[1] - n[1] * b[1]
        dy == x[2] - y[2] - n[2] * b[2]
        dz == x[3] - y[3] - n[3] * b[3]
    IN  dx * dx + dy * dy + dz * dz

\* The minimiser has |n| <= |x - y| on every axis as box lengths are >= 1, and
\* |x - y| <= MaxCoord: translations of both points keep the difference.
Images == [Axes -> (-(MaxCoord + 1))..(MaxCoord + 1)]
ExactMic(x, y, b) ==
    LET S == { ImageDist2(x, y, b, n) : n \in Images }
    IN  CHOOSE m \in S : \A s \in S : m <= s

\* C8: dist_mic_squared(x, y) is the minimum over all lattice translations of
\* y of the squared distance to x.
C8_OrthoIsExactMinimumImage ==
    (pc \in {"mic_ortho", "mic_both"}) =>
        d_ortho = ExactMic(mic_x, mic_y, BoxOf(uc_vec))

\* C9: on a diagonal cell dist_mic_tric_squared returns the value of
\* dist_mic_squared.
C9_TricEqualsOrthoOnDiagonalCell ==
    (pc = "mic_both" /\ mic_ops = << >>) =>
        d_tric.num = d_ortho * d_tric.den

\* C10: dist_mic_squared(x, y) = dist_mic_squared(y, x), and the value is the
\* same after both points are translated by a multiple of a lattice vector.
C10_SymmetricAndTranslationInvariant ==
    [][(pc = "mic_both" /\ pc' = "mic_both") => d_ortho' = d_ortho]_vars

C10_Witness ==
    /\ pc = "mic_both"
    /\ mic_ops = << "swap", "shift" >>
    /\ 2 * (mic_x[1] - mic_y[1]) > uc_vec[1]
    /\ 2 * (mic_x[2] - mic_y[2]) < -uc_vec[5]
    /\ d_ortho > 0


(***************************************************************************)
(* getNNTrEntropy (lines 458-1427).                                        *)
(*                                                                         *)
(* Real numbers are fixed-point integers in units of 1/Milli.  Molecule    *)
(* positions are integer points, so that a squared distance is an integer  *)
(* and the nearest-neighbour distance has an exact root.  An orientation   *)
(* is a rotation by an integer angle about one fixed axis: for two such    *)
(* quaternions 2*acos(q0.q1) is the absolute difference of the angles.     *)
(* The natural logarithm is computed as ln(2) * floor(log2(x)): monotone,  *)
(* zero at 1 and negative below 1.  A quotient by zero yields NotFinite,   *)
(* which propagates through sums and products and differs from 0.          *)
(***************************************************************************)
Milli == 1000
NotFinite == 0 - (Milli * Milli * Milli)
pi == 3142
twopi == 6283
gas_kcal == 1987          \* in units of 1/(Milli*Milli)
euler_masc == 577
Sentinel == 10000
NNrLimit == 9999
NNdLimit == 3
UIntBits == 16            \* width given to unsigned int; no model index reaches it
UInt(x) == x % (2 ^ UIntBits)

Fadd(a, b) == IF a = NotFinite \/ b = NotFinite THEN NotFinite ELSE a + b
Fmul(a, b) == IF a = NotFinite \/ b = NotFinite THEN NotFinite ELSE (a * b) \div Milli
Fdiv(a, b) == IF a = NotFinite \/ b = NotFinite \/ b = 0 THEN NotFinite
              ELSE (a * Milli) \div b
Real(n) == n * Milli

RECURSIVE Log2Floor(_, _)
Log2Floor(num, den) ==
    IF num >= den
    THEN IF num >= 2 * den THEN 1 + Log2Floor(num, 2 * den) ELSE 0
    ELSE Log2Floor(2 * num, den) - 1
log(num, den) == 693 * Log2Floor(num, den)

\* the root of n, rounded down: bisection between lo and hi
RECURSIVE sqrt_between(_, _, _)
sqrt_between(lo, hi, n) ==
    IF hi - lo <= 1 THEN lo
    ELSE LET mid == (lo + hi) \div 2
         IN  IF mid * mid <= n THEN sqrt_between(mid, hi, n) ELSE sqrt_between(lo, mid, n)
\* the root lies below 2^15 for every n the model takes a root of
sqrt(n) == sqrt_between(0, IF n < 2 ^ 15 THEN n + 1 ELSE 2 ^ 15, n)

dist_squared(p, q) ==
    (p[1] - q[1]) * (p[1] - q[1]) + (p[2] - q[2]) * (p[2] - q[2])
        + (p[3] - q[3]) * (p[3] - q[3])
quat_angle(q0, q1) == Abs(q0 - q1)

\* line 496 with the z dimension left out of the product
max_voxel_index_xy(dims) == UInt(dims[1] * dims[2])

\* line 496
max_voxel_index(dims) == UInt(dims[1] * dims[2] * dims[3])
addx(dims) == UInt(dims[2] * dims[3])
addy(dims) == dims[3]
addz(dims) == 1

\* lines 588-595
cannotAddZ_never(v, dims) == dims[3] = 0
cannotAddZ(v, dims) == dims[3] = 0 \/ v % dims[3] = UInt(dims[3] - 1)
cannotAddY(v, dims) ==
    (dims[3] = 0 \/ UInt(dims[2] - 1) = 0)
    \/ (v % UInt(dims[3] * UInt(dims[2] - 1) + (v \div addx(dims)) * addx(dims)) < dims[3])
cannotAddX(v, dims) ==
    v >= UInt(addx(dims) * UInt(dims[1] - 1)) /\ v < UInt(addx(dims) * dims[1])
cannotSubZ(v, dims) == dims[3] = 0 \/ v % dims[3] = 0
cannotSubY(v, dims) == (dims[3] = 0 \/ dims[2] = 0) \/ (v % addx(dims) < dims[3])
cannotSubX_never(v, dims) == dims[3] = 0 \/ dims[2] = 0
cannotSubX(v, dims) == (dims[3] = 0 \/ dims[2] = 0) \/ (v >= 0 /\ v < addx(dims))
boundary(v, dims) ==
    \/ cannotAddZ(v, dims) \/ cannotAddY(v, dims) \/ cannotAddX(v, dims)
    \/ cannotSubZ(v, dims) \/ cannotSubY(v, dims) \/ cannotSubX(v, dims)

\* The neighbour blocks with the third +Z +Y block (line 908) reading the
\* voxel at +Z +Y +X.
NbrOffsets_corner ==
    << << 0, 0, 1>>, << 0, 1, 0>>, << 1, 0, 0>>,
       << 0, 0,-1>>, << 0,-1, 0>>, <<-1, 0, 0>>,
       << 0, 1, 1>>, << 0,-1, 1>>, << 1, 1, 1>>, << 0,-1, 1>>,
       << 0, 1,-1>>, << 0,-1,-1>>,
       << 1, 0, 1>>, <<-1, 0, 1>>, << 1, 0,-1>>, <<-1, 0,-1>>,
       << 1, 1, 0>>, <<-1, 1, 0>>, << 1,-1, 0>>, <<-1,-1, 0>> >>

\* The neighbour blocks of lines 602-1361 in the order of the code, each as
\* the multiples <<cx, cy, cz>> of addx, addy, addz it adds to voxel.
NbrOffsets ==
    << << 0, 0, 1>>, << 0, 1, 0>>, << 1, 0, 0>>,
       << 0, 0,-1>>, << 0,-1, 0>>, <<-1, 0, 0>>,
       << 0, 1, 1>>, << 0,-1, 1>>, << 0, 1, 1>>, << 0,-1, 1>>,
       << 0, 1,-1>>, << 0,-1,-1>>,
       << 1, 0, 1>>, <<-1, 0, 1>>, << 1, 0,-1>>, <<-1, 0,-1>>,
       << 1, 1, 0>>, <<-1, 1, 0>>, << 1,-1, 0>>, <<-1,-1, 0>> >>
\* the index with the multiple of addx left out
nbr_index_no_x(v, off, dims) ==
    UInt(v + off[3] * addz(dims) + off[2] * addy(dims))

\* lines 604, 642, ... 1326: voxel + cz * addz + cy * addy + cx * addx
nbr_index(v, off, dims) ==
    UInt(v + off[3] * addz(dims) + off[2] * addy(dims) + off[1] * addx(dims))

\* A read past the end of the table or of a list finds no molecule.
CountAt(tab, idx) == IF idx \in DOMAIN tab THEN tab[idx][4] ELSE 0
ListAt(lists, idx) == IF idx \in DOMAIN lists THEN lists[idx] ELSE << >>


\* lines 564-576 with every positive candidate taken, nearer or not
same_step_last(nn, p0, q0, p1, q1) ==
    LET dd == dist_squared(p0, p1)
        rR == quat_angle(q0, q1)
        ds == rR * rR + dd
    IN  [NNd |-> IF dd > 0 THEN dd ELSE nn.NNd,
         NNs |-> IF ds > 0 THEN ds ELSE nn.NNs,
         NNr |-> IF rR > 0 THEN rR ELSE nn.NNr]

\* lines 564-576: the body of the same-voxel loop for one other molecule
same_step(nn, p0, q0, p1, q1) ==
    LET dd == dist_squared(p0, p1)
        rR == quat_angle(q0, q1)
        ds == rR * rR + dd
    IN  [NNd |-> IF dd < nn.NNd /\ dd > 0 THEN dd ELSE nn.NNd,
         NNs |-> IF ds < nn.NNs /\ ds > 0 THEN ds ELSE nn.NNs,
         NNr |-> IF rR > 0 /\ rR < nn.NNr THEN rR ELSE nn.NNr]

\* lines 629-636 with a candidate at distance 0 accepted
nbr_step_zero(nn, p0, q0, p1, q1) ==
    LET dd == dist_squared(p0, p1)
        rR == quat_angle(q0, q1)
        ds == rR * rR + dd
    IN  [NNd |-> IF dd < nn.NNd /\ dd >= 0 THEN dd ELSE nn.NNd,
         NNs |-> IF ds < nn.NNs /\ ds >= 0 THEN ds ELSE nn.NNs,
         NNr |-> nn.NNr]

\* lines 629-636: the body of a neighbour-voxel loop; NNr is not touched
nbr_step(nn, p0, q0, p1, q1) ==
    LET dd == dist_squared(p0, p1)
        rR == quat_angle(q0, q1)
        ds == rR * rR + dd
    IN  [NNd |-> IF dd < nn.NNd /\ dd > 0 THEN dd ELSE nn.NNd,
         NNs |-> IF ds < nn.NNs /\ ds > 0 THEN ds ELSE nn.NNs,
         NNr |-> nn.NNr]

\* Evaluated(v, e) is e; it makes TLC evaluate the loop-carried value v at
\* every pass of a loop instead of building a chain of unevaluated passes.
Evaluated(v, e) == IF v = v THEN e ELSE e

\* lines 542-577
RECURSIVE same_voxel_loop(_, _, _, _, _, _)
same_voxel_loop(n1, nw_total, n0, cl, ql, nn) ==
    IF ~(n1 < nw_total) THEN nn
    ELSE Evaluated(nn,
           same_voxel_loop(n1 + 1, nw_total, n0, cl, ql,
             IF n1 # n0
             THEN same_step(nn, cl[n0 + 1], ql[n0 + 1], cl[n1 + 1], ql[n1 + 1])
             ELSE nn))

\* lines 608-640, and the same loop in each later block
RECURSIVE nbr_voxel_loop(_, _, _, _, _, _, _)
nbr_voxel_loop(n1, n1_total, p0, q0, cl, ql, nn) ==
    IF n1 = n1_total THEN nn
    ELSE Evaluated(nn,
           nbr_voxel_loop(n1 + 1, n1_total, p0, q0, cl, ql,
             nbr_step(nn, p0, q0, cl[n1 + 1], ql[n1 + 1])))

\* lines 602-1361: the blocks from the k-th on
RECURSIVE nbr_blocks(_, _, _, _, _)
nbr_blocks(k, v, p0, q0, nn) ==
    IF k > Len(NbrOffsets) THEN nn
    ELSE LET idx == nbr_index(v, NbrOffsets[k], grid_dims)
         IN  Evaluated(nn,
               nbr_blocks(k + 1, v, p0, q0,
                 nbr_voxel_loop(0, CountAt(voxel_data, idx), p0, q0,
                                ListAt(voxel_O_coords, idx),
                                ListAt(voxel_quarts, idx), nn)))

\* the voxel rows the blocks read, each with the offset the block is for
nbr_reads(v) ==
    { [idx |-> nbr_index(v, NbrOffsets[k], grid_dims), off |-> NbrOffsets[k]] :
        k \in 1..Len(NbrOffsets) }

\* lines 578-580
or_accepts(nw_total, NNr) == nw_total > 1 /\ NNr < NNrLimit /\ NNr > 0
\* line 1366
tr_accepts_le(NNd) == NNd <= NNdLimit /\ NNd > 0
tr_accepts(NNd) == NNd < NNdLimit /\ NNd > 0

\* lines 578-587 and 1363-1374: the log terms of a molecule whose same-voxel
\* loop ended with the record same and whose neighbour blocks ended with nn.
\* NNs is kept squared: its sixth power is the cube of that.
molecule_terms(v, bnd, nw_total, same, nn, NNd) ==
    [boundary |-> bnd,
     scanned  |-> ~bnd,
     reads    |-> IF bnd THEN {} ELSE nbr_reads(v),
     same     |-> same,
     NNd      |-> nn.NNd,
     NNs      |-> nn.NNs,
     NNr      |-> nn.NNr,
     orient   |-> or_accepts(nw_total, same.NNr),
     dbl_o    |-> IF or_accepts(nw_total, same.NNr)
                  THEN log(same.NNr * same.NNr * same.NNr * nw_total * Milli, 3 * twopi)
                  ELSE 0,
     trans    |-> ~bnd /\ tr_accepts(NNd),
     dbl_t    |-> IF ~bnd /\ tr_accepts(NNd)
                  THEN log(NNd * NNd * NNd * ent_in.num_frames * 4 * pi * ent_in.ref_dens,
                           3 * Milli * Milli)
                  ELSE 0,
     dbl_s    |-> IF ~bnd /\ tr_accepts(NNd)
                  THEN log(nn.NNs * nn.NNs * nn.NNs * ent_in.num_frames * pi
                               * ent_in.ref_dens,
                           48 * Milli * Milli)
                  ELSE 0]

\* lines 1363-1364 with the roots left out
molecule_root_squared(v, bnd, nw_total, same, nn) ==
    molecule_terms(v, bnd, nw_total, same, nn, nn.NNd)

\* lines 1363-1364
molecule_root(v, bnd, nw_total, same, nn) ==
    molecule_terms(v, bnd, nw_total, same, nn, sqrt(nn.NNd))

\* lines 598-1361
molecule_nbrs(v, n0, bnd, nw_total, same) ==
    molecule_root(v, bnd, nw_total, same,
        IF bnd THEN same
        ELSE nbr_blocks(1, v, voxel_O_coords[v][n0 + 1], voxel_quarts[v][n0 + 1], same))

\* lines 518-1375: the body of the loop over the molecules of voxel v, for
\* molecule n0
molecule(v, n0) ==
    molecule_nbrs(v, n0, boundary(v, grid_dims), voxel_data[v][4],
        same_voxel_loop(0, voxel_data[v][4], n0, voxel_O_coords[v], voxel_quarts[v],
                        [NNd |-> Sentinel, NNs |-> Sentinel, NNr |-> Sentinel]))

RECURSIVE SumOver(_, _, _)
SumOver(f, n, field) == IF n = 0 THEN 0 ELSE f[n - 1][field] + SumOver(f, n - 1, field)

\* gas_kcal * temp * ((sum / nw_total) + euler_masc)
normalise(sum, nw_total) ==
    Fmul((gas_kcal * ent_in.temp) \div Milli, Fadd(Fdiv(sum, Real(nw_total)), euler_masc))
\* col * nw_total / (num_frames * voxel_vol)
per_volume(col, nw_total) ==
    Fdiv(Fmul(col, Real(nw_total)), Fmul(Real(ent_in.num_frames), ent_in.voxel_vol))

\* lines 1386-1401: the row and the accumulators after the pass, given the
\* sums of the log terms, the raw columns 8, 10, 12 and their final values
voxel_result(row, nw_total, mols, sum, raw, col) ==
    [row  |-> [c \in DOMAIN row |->
                CASE c = 5  -> Fadd(row[5],
                                 Fdiv(Fdiv(Real(nw_total),
                                           Fmul(Real(ent_in.num_frames), ent_in.voxel_vol)),
                                      ent_in.ref_dens))
                  [] c = 7  -> per_volume(col.c8, nw_total)
                  [] c = 8  -> col.c8
                  [] c = 9  -> col.c9
                  [] c = 10 -> col.c10
                  [] c = 11 -> per_volume(col.c12, nw_total)
                  [] c = 12 -> col.c12
                  [] OTHER  -> row[c]],
     mols |-> mols,
     raw  |-> raw,
     acc  |-> [dTStranstot  |-> Fadd(ent_acc.dTStranstot, per_volume(col.c8, nw_total)),
               dTSorienttot |-> Fadd(ent_acc.dTSorienttot, col.c9),
               dTSt |-> ent_acc.dTSt + sum.t,
               dTSs |-> ent_acc.dTSs + sum.s,
               dTSo |-> ent_acc.dTSo + sum.o,
               nwts |-> IF raw.trans # 0 THEN ent_acc.nwts + nw_total ELSE ent_acc.nwts,
               nwtt |-> ent_acc.nwtt + nw_total,
               dTSst |-> 0, dTStt |-> 0, dTSot |-> 0],
     divs |-> (IF raw.orient # 0
               THEN {[what |-> "orient_norm", divisor |-> nw_total]} ELSE {})
              \cup
              (IF raw.trans # 0
               THEN {[what |-> "trans_norm", divisor |-> nw_total],
                     [what |-> "six_norm", divisor |-> nw_total]} ELSE {})]

\* lines 1381-1385: column 10, and column 9 from it
voxel_orient(row, nw_total, mols, sum, raw, c8, c12, c10) ==
    voxel_result(row, nw_total, mols, sum, raw,
        [c8 |-> c8, c12 |-> c12, c10 |-> c10,
         c9 |-> IF raw.orient # 0 THEN per_volume(c10, nw_total) ELSE row[9]])

\* lines 1381-1397 with column 12 replaced when its own raw sum is not 0
voxel_write_own(row, nw_total, mols, sum, raw) ==
    voxel_orient(row, nw_total, mols, sum, raw,
        IF raw.trans # 0 THEN normalise(raw.trans, nw_total) ELSE raw.trans,
        IF raw.six # 0 THEN normalise(raw.six, nw_total) ELSE raw.six,
        IF raw.orient # 0 THEN normalise(raw.orient, nw_total) ELSE raw.orient)

\* lines 1381-1397: the columns 8, 10 and 12 are replaced when the raw sum of
\* column 10, respectively column 8, is not 0
voxel_write(row, nw_total, mols, sum, raw) ==
    voxel_orient(row, nw_total, mols, sum, raw,
        IF raw.trans # 0 THEN normalise(raw.trans, nw_total) ELSE raw.trans,
        IF raw.trans # 0 THEN normalise(raw.six, nw_total) ELSE raw.six,
        IF raw.orient # 0 THEN normalise(raw.orient, nw_total) ELSE raw.orient)

\* lines 1378-1380: the raw sums are the columns after the += of the loop
voxel_raw(row, nw_total, mols, sum) ==
    voxel_write(row, nw_total, mols, sum,
        [trans  |-> Fadd(row[8], sum.t),
         orient |-> Fadd(row[10], sum.o),
         six    |-> Fadd(row[12], sum.s)])

\* lines 518-1375: the log terms the molecules of the voxel add
voxel_sums(row, nw_total, mols) ==
    voxel_raw(row, nw_total, mols,
        [t |-> SumOver(mols, nw_total, "dbl_t"),
         o |-> SumOver(mols, nw_total, "dbl_o"),
         s |-> SumOver(mols, nw_total, "dbl_s")])

\* lines 505-1401: one pass of the loop over the voxels
voxel_body(v) ==
    voxel_sums(voxel_data[v], voxel_data[v][4],
               [n0 \in 0..(voxel_data[v][4] - 1) |-> molecule(v, n0)])

\* ---- the calls of getNNTrEntropy the model makes ----
Cell(v, dims) == << v \div (dims[2] * dims[3]), (v \div dims[3]) % dims[2], v % dims[3] >>
Flat(c, dims) == c[1] * dims[2] * dims[3] + c[2] * dims[3] + c[3]
Voxels(dims) == 0 .. (dims[1] * dims[2] * dims[3] - 1)
InsideGrid(c, dims) == \A a \in Axes : c[a] >= 0 /\ c[a] < dims[a]

\* a row of the voxel table: column 0 the voxel index, column 4 the molecule
\* count, the columns the call writes at the value prior
Row(v, n, prior) ==
    [c \in 0..12 |-> IF c = 0 THEN v
                     ELSE IF c = 4 THEN n
                     ELSE IF c \in {5, 7, 8, 9, 10, 11, 12} THEN prior
                     ELSE 0]
ZeroAcc ==
    [dTStranstot |-> 0, dTSorienttot |-> 0, dTSt |-> 0, dTSs |-> 0, dTSo |-> 0,
     nwts |-> 0, nwtt |-> 0, dTSst |-> 0, dTStt |-> 0, dTSot |-> 0]
NoVoxel == [ran |-> FALSE, voxel |-> 0, nw_total |-> 0, mols |-> << >>,
            raw |-> [trans |-> 0, orient |-> 0, six |-> 0]]
Inputs(F) == [num_frames |-> F, voxel_vol |-> 125, ref_dens |-> 33, temp |-> 300]

SmallGrid == <<3, 3, 3>>
FocusCells == { <<1, 1, 1>>, <<0, 1, 1>> }
Around(f) == { g \in (0..2) \X (0..2) \X (0..2) :
                 g # f /\ \A a \in Axes : Abs(g[a] - f[a]) <= 1 }
Molecules == (0..MaxPos) \X (0..MaxAng)

EntStart(dims, F, tab, cls, qls) ==
    /\ pc = "ent_loop"
    /\ ret = NoRet
    /\ ent_in = Inputs(F)
    /\ grid_dims = dims
    /\ voxel_data = tab
    /\ voxel_data0 = tab
    /\ voxel_O_coords = cls
    /\ voxel_quarts = qls
    /\ voxel = 0
    /\ ent_acc = ZeroAcc
    /\ ent_last = NoVoxel
    /\ ent_divs = {}
    /\ ent_task = Idle
    /\ ent_ref = Idle
    /\ MicIdle
    /\ AssignIdle
    /\ KernIdle

\* every voxel of a grid of any shape holds the same number of molecules
InitEntUniform ==
    \E dims \in (1..MaxN) \X (1..MaxN) \X (1..MaxN), k \in 0..MaxCount, F \in {1, MaxFrames} :
        EntStart(dims, F,
                 [v \in Voxels(dims) |-> Row(v, k, 0)],
                 [v \in Voxels(dims) |->
                     [j \in 1..k |-> << (Cell(v, dims)[1] + j - 1) % (MaxPos + 1), 0, 0 >>]],
                 [v \in Voxels(dims) |-> [j \in 1..k |-> (j - 1) % (MaxAng + 1)]])

\* a 3x3x3 grid, empty but for a focus voxel with up to two molecules and
\* one voxel next to it with up to one, turned by MaxAng; when no other voxel
\* holds a molecule the focus row may hold prior values
InitEntFocus ==
    \E f \in FocusCells,
       fm \in {<< >>, << <<0, 0>> >>} \cup {<< <<0, 0>>, m >> : m \in Molecules},
       gm \in {<< >>} \cup {<< <<x, MaxAng>> >> : x \in 0..MaxPos} :
      \E g \in (IF gm = << >> THEN {CHOOSE c \in Around(f) : TRUE} ELSE Around(f)),
         dirty \in (IF gm = << >> THEN BOOLEAN ELSE {FALSE}) :
        LET fv == Flat(f, SmallGrid)
            gv == Flat(g, SmallGrid)
            mol == [v \in Voxels(SmallGrid) |->
                      IF v = fv THEN fm ELSE IF v = gv THEN gm ELSE << >>]
        IN  EntStart(SmallGrid, 1,
                 [v \in Voxels(SmallGrid) |->
                     Row(v, Len(mol[v]), IF dirty /\ v = fv THEN Milli \div 2 ELSE 0)],
                 [v \in Voxels(SmallGrid) |->
                     [j \in 1..Len(mol[v]) |-> << mol[v][j][1], 0, 0 >>]],
                 [v \in Voxels(SmallGrid) |->
                     [j \in 1..Len(mol[v]) |-> mol[v][j][2]]])

InitEnt == InitEntUniform \/ InitEntFocus

\* lines 504-1401 with the occupancy stored in column 6 as well
voxel_step_col6(b) ==
    /\ voxel_data' = [voxel_data EXCEPT ![voxel] = [b.row EXCEPT ![6] = b.row[5]]]
    /\ ent_acc' = b.acc
    /\ ent_last' = [ran |-> TRUE, voxel |-> voxel,
                    nw_total |-> voxel_data[voxel][4],
                    mols |-> b.mols, raw |-> b.raw]
    /\ ent_divs' = b.divs

\* lines 504-1401, b being what the pass computes
voxel_step(b) ==
    /\ voxel_data' = [voxel_data EXCEPT ![voxel] = b.row]
    /\ ent_acc' = b.acc
    /\ ent_last' = [ran |-> TRUE, voxel |-> voxel,
                    nw_total |-> voxel_data[voxel][4],
                    mols |-> b.mols, raw |-> b.raw]
    /\ ent_divs' = b.divs

\* lines 504-1401
EntVoxel ==
    /\ pc = "ent_loop"
    /\ voxel < max_voxel_index(grid_dims)
    /\ voxel_step(voxel_body(voxel))
    /\ voxel' = UInt(voxel + 1)
    /\ UNCHANGED <<pc, ret, ent_in, grid_dims, voxel_data0, voxel_O_coords,
                   voxel_quarts, ent_task, ent_ref, micVars, assignVars, kernVars>>

\* lines 1402-1426
EntReturn ==
    /\ pc = "ent_loop"
    /\ ~(voxel < max_voxel_index(grid_dims))
    /\ ent_acc' = [ent_acc EXCEPT
            !.dTStranstot  = Fmul(@, ent_in.voxel_vol),
            !.dTSorienttot = Fmul(@, ent_in.voxel_vol),
            !.dTSst = IF ent_acc.nwts > 0 THEN normalise(ent_acc.dTSs, ent_acc.nwts) ELSE 0,
            !.dTStt = IF ent_acc.nwts > 0 THEN normalise(ent_acc.dTSt, ent_acc.nwts) ELSE 0,
            !.dTSot = normalise(ent_acc.dTSo, ent_acc.nwtt)]
    /\ ent_divs' = (IF ent_acc.nwts > 0
                    THEN {[what |-> "total_six", divisor |-> ent_acc.nwts],
                          [what |-> "total_trans", divisor |-> ent_acc.nwts]}
                    ELSE {})
                   \cup {[what |-> "total_orient", divisor |-> ent_acc.nwtt]}
    /\ pc' = "ent_done"
    /\ ret' = 0
    /\ UNCHANGED <<ent_in, grid_dims, voxel_data, voxel_data0, voxel_O_coords,
                   voxel_quarts, voxel, ent_last, ent_task, ent_ref, micVars, assignVars,
                   kernVars>>

NextEnt == EntVoxel \/ EntReturn
SpecEntropy == InitEnt /\ [][NextEnt]_vars


(***************************************************************************)
(* Properties of getNNTrEntropy.                                           *)
(***************************************************************************)
InEnt == pc \in {"ent_loop", "ent_done"}
\* the voxel lies on a face of the grid
OnFace(v, dims) ==
    \E a \in Axes : Cell(v, dims)[a] = 0 \/ Cell(v, dims)[a] = dims[a] - 1
Shifted(v, off, dims) == [a \in Axes |-> Cell(v, dims)[a] + off[a]]
\* the offsets to the voxels that share a face or an edge with a voxel
FaceOrEdge ==
    { o \in {-1, 0, 1} \X {-1, 0, 1} \X {-1, 0, 1} :
        Cardinality({a \in Axes : o[a] # 0}) \in {1, 2} }
EntropyCols == {7, 8, 9, 10, 11, 12}
ZeroFilled ==
    \A v \in DOMAIN voxel_data0 : \A c \in EntropyCols \cup {5} : voxel_data0[v][c] = 0
LastVoxel == ent_last.voxel
LastMols == ent_last.mols
\* the raw sums of the last voxel are what the table held before the call
NoTransTermAdded ==
    /\ \A n0 \in DOMAIN LastMols : ~LastMols[n0].trans
    /\ ent_last.raw.trans = voxel_data0[LastVoxel][8]
    /\ ent_last.raw.six = voxel_data0[LastVoxel][12]
NoOrientTermAdded ==
    /\ \A n0 \in DOMAIN LastMols : ~LastMols[n0].orient
    /\ ent_last.raw.orient = voxel_data0[LastVoxel][10]
\* some molecule of a voxel sharing a face or an edge with v lies at a
\* distance d, 0 < d < 3, from the first molecule of v
NeighbourWithinCutoff(v) ==
    \E o \in FaceOrEdge :
        /\ InsideGrid(Shifted(v, o, grid_dims), grid_dims)
        /\ LET u == Flat(Shifted(v, o, grid_dims), grid_dims)
           IN  \E j \in DOMAIN voxel_O_coords[u] :
                 LET dd == dist_squared(voxel_O_coords[v][1], voxel_O_coords[u][j])
                 IN  dd > 0 /\ dd < NNdLimit * NNdLimit

\* C1: the boundary predicate is true exactly for the voxels with ix in
\* {0, nx-1} or iy in {0, ny-1} or iz in {0, nz-1}, for all nx, ny, nz >= 1;
\* the neighbour scan runs only when it is false, and every voxel index the
\* scan reads lies in [0, nx*ny*nz) and is the index of the voxel at the
\* offset the block is for, with no wrap-around.
C1_BoundaryExactNeighbourReadsInRange ==
    InEnt =>
        /\ voxel = 0 =>
             \A v \in Voxels(grid_dims) : boundary(v, grid_dims) = OnFace(v, grid_dims)
        /\ ent_last.ran =>
             \A n0 \in DOMAIN LastMols :
                /\ LastMols[n0].boundary = OnFace(LastVoxel, grid_dims)
                /\ LastMols[n0].scanned = ~OnFace(LastVoxel, grid_dims)
                /\ LastMols[n0].boundary => LastMols[n0].reads = {}
                /\ \A r \in LastMols[n0].reads :
                      /\ r.idx \in Voxels(grid_dims)
                      /\ InsideGrid(Shifted(LastVoxel, r.off, grid_dims), grid_dims)
                      /\ r.idx = Flat(Shifted(LastVoxel, r.off, grid_dims), grid_dims)

C1_Witness ==
    /\ InEnt /\ ent_last.ran
    /\ grid_dims[1] # grid_dims[2]
    /\ ~OnFace(LastVoxel, grid_dims)
    /\ \E n0 \in DOMAIN LastMols :
          LastMols[n0].scanned /\ Cardinality(LastMols[n0].reads) = 18

\* C5 as stated: a voxel holding exactly one molecule adds nothing to its
\* translational, six-dimensional or orientational sum, on the boundary or
\* not and whatever its neighbour voxels hold.
C5_SingleMoleculeAddsNothing ==
    (InEnt /\ ent_last.ran /\ ent_last.nw_total = 1) =>
        NoTransTermAdded /\ NoOrientTermAdded

\* C5 amended: a voxel holding exactly one molecule adds nothing to its
\* orientational sum and finds no neighbour in its own voxel; it adds a
\* translational and a six-dimensional term exactly when it is not on the
\* boundary and a molecule of a voxel sharing a face or an edge with it lies
\* at a distance d with 0 < d < 3, and otherwise leaves both sums alone.
C5_SingleMoleculeAddsOnlyFromNeighbourVoxels ==
    (InEnt /\ ent_last.ran /\ ent_last.nw_total = 1) =>
        /\ NoOrientTermAdded
        /\ LastMols[0].same = [NNd |-> Sentinel, NNs |-> Sentinel, NNr |-> Sentinel]
        /\ LastMols[0].trans =
              (~OnFace(LastVoxel, grid_dims) /\ NeighbourWithinCutoff(LastVoxel))
        /\ ~LastMols[0].trans => NoTransTermAdded

C5_Witness ==
    /\ InEnt /\ ent_last.ran /\ ent_last.nw_total = 1
    /\ ~OnFace(LastVoxel, grid_dims)
    /\ LastMols[0].trans
    /\ LastMols[0].NNd = 4
    /\ ent_last.raw.six # voxel_data0[LastVoxel][12]

\* C6: no quotient is computed whose divisor is a molecule count that is 0:
\* a voxel with count 0 adds nothing to any entropy sum and its count divides
\* nothing, whatever its entropy columns held, and the grid-wide total
\* divides nothing when every voxel is empty.
C6_NoQuotientByZeroCount ==
    InEnt =>
        /\ \A d \in ent_divs : d.divisor # 0
        /\ (ent_last.ran /\ ent_last.nw_total = 0) =>
              (LastMols = << >> /\ NoTransTermAdded /\ NoOrientTermAdded)

\* C7: for a voxel on the boundary no neighbour search runs and no term is
\* added to column 8 or column 12; when the table was passed in zero-filled,
\* columns 7, 8, 11 and 12 of every boundary voxel are 0 after the call.
C7_BoundaryVoxelGetsNoTranslationalTerm ==
    InEnt =>
        /\ (ent_last.ran /\ OnFace(LastVoxel, grid_dims)) =>
              /\ \A n0 \in DOMAIN LastMols :
                    ~LastMols[n0].scanned /\ LastMols[n0].reads = {}
              /\ NoTransTermAdded
        /\ (pc = "ent_done" /\ ZeroFilled) =>
              \A v \in Voxels(grid_dims) :
                 OnFace(v, grid_dims) =>
                    \A c \in {7, 8, 11, 12} : voxel_data[v][c] = 0

C7_Witness ==
    /\ pc = "ent_done" /\ ZeroFilled
    /\ \E v \in Voxels(grid_dims) :
          /\ OnFace(v, grid_dims)
          /\ voxel_data[v][4] = 2
          /\ dist_squared(voxel_O_coords[v][1], voxel_O_coords[v][2]) = 1
          /\ voxel_data[v][10] # 0
          /\ \E u \in Voxels(grid_dims) : u # v /\ voxel_data[u][4] > 0


(***************************************************************************)
(* calculate_energy, lines 1465-1521.                                      *)
(*                                                                         *)
(* The doubles of this kernel are exact rationals [num, den]; a value with *)
(* den = 0 is the outcome of a division by zero (not finite) and equals    *)
(* nothing, itself included.                                               *)
(***************************************************************************)
MaxSites == 2     \* rows of the four arrays: 1..MaxSites
MaxAtoms == 3     \* columns of the four arrays: 1..MaxAtoms
MaxCoef  == 2     \* the coefficients and charges passed in start from 0..MaxCoef

Q(n, d) == [num |-> n, den |-> d]
Qmul(a, b) == Q(a.num * b.num, a.den * b.den)
Qsub(a, b) == Q(a.num * b.den - b.num * a.den, a.den * b.den)
Qdiv(a, b) == IF b.num >= 0 THEN Q(a.num * b.den, a.den * b.num)
              ELSE Q(0 - a.num * b.den, 0 - a.den * b.num)
Qeq(a, b) == a.den # 0 /\ b.den # 0 /\ a.num * b.den = b.num * a.den

\* line 1494 with the test removed
is_self_pair_never(at_i, j) == FALSE

\* line 1494
is_self_pair(at_i, j) == at_i = j

\* lines 1495-1510 with the attractive term added
energy_pair_plus(d, a, b, c) ==
    LET d_sqrt == Q(sqrt(d), 1)
        d_inv  == Qdiv(Q(1, 1), Q(d, 1))
        d6     == Qmul(Qmul(d_inv, d_inv), d_inv)
        d12    == Qmul(d6, d6)
        a1     == Qmul(a, d12)
    IN  [a |-> Qsub(a1, Qmul(Q(0 - b, 1), d6)), c |-> Qdiv(c, d_sqrt)]

\* lines 1495-1510: the new *a and *c
energy_pair(d, a, b, c) ==
    LET d_sqrt == Q(sqrt(d), 1)
        d_inv  == Qdiv(Q(1, 1), Q(d, 1))
        d6     == Qmul(Qmul(d_inv, d_inv), d_inv)
        d12    == Qmul(d6, d6)
        a1     == Qmul(a, d12)
    IN  [a |-> Qsub(a1, Qmul(Q(b, 1), d6)), c |-> Qdiv(c, d_sqrt)]

\* lines 1491-1516 for row i: the rows of acoeff and chg after the inner loop
energy_row(i, wat, n_atoms, drow, arow, brow, crow) ==
    LET at_i == wat + i
        new(j) == energy_pair(drow[j], arow[j], brow[j], crow[j])
    IN  [a |-> [j \in 0..(n_atoms - 1) |->
                   IF is_self_pair(at_i, j) THEN arow[j] ELSE new(j).a],
         c |-> [j \in 0..(n_atoms - 1) |->
                   IF is_self_pair(at_i, j) THEN crow[j] ELSE new(j).c]]

solvent_at_sites == IF en_dist = Idle THEN 0 ELSE Cardinality(DOMAIN en_dist)
n_atoms == IF solvent_at_sites = 0 THEN 0 ELSE Cardinality(DOMAIN en_dist[0])

DistVals == <<1, 4>>      \* squared distances whose root is exact

\* the squared distance of an atom to itself is 0; the other entries are
\* drawn from DistVals, the coefficients and charges vary with row and column
InitEnergy ==
    /\ pc = "en_loop"
    /\ ret = NoRet
    /\ \E S \in 1..MaxSites, n \in 1..MaxAtoms, w \in 0..MaxAtoms,
          a0 \in 1..MaxCoef, b0 \in 0..MaxCoef, q0 \in 1..MaxCoef, k \in 0..1 :
         /\ en_wat = w
         /\ en_dist = [i \in 0..(S - 1) |-> [j \in 0..(n - 1) |->
                          IF j = w + i THEN 0 ELSE DistVals[((i + j + k) % 2) + 1]]]
         /\ en_acoeff = [i \in 0..(S - 1) |-> [j \in 0..(n - 1) |->
                          Q(a0 + ((i + j) % 2), 1)]]
         /\ en_bcoeff = [i \in 0..(S - 1) |-> [j \in 0..(n - 1) |-> b0 + (j % 2)]]
         /\ en_chg = [i \in 0..(S - 1) |-> [j \in 0..(n - 1) |->
                          Q(IF j % 2 = 0 THEN q0 ELSE 0 - q0, 1)]]
    /\ en_in = [dist |-> en_dist, chg |-> en_chg, acoeff |-> en_acoeff,
                bcoeff |-> en_bcoeff]
    /\ en_i = 0
    /\ MicIdle /\ AssignIdle /\ EntIdle
    /\ DistMatrixIdle /\ OrIdle /\ PairIdle

otherVars == <<micVars, assignVars, entVars>>

\* lines 1489-1517: one pass of the outer loop
EnergySite ==
    /\ pc = "en_loop"
    /\ en_i < solvent_at_sites
    /\ LET r == energy_row(en_i, en_wat, n_atoms, en_dist[en_i], en_acoeff[en_i],
                           en_bcoeff[en_i], en_chg[en_i])
       IN  /\ en_acoeff' = [en_acoeff EXCEPT ![en_i] = r.a]
           /\ en_chg' = [en_chg EXCEPT ![en_i] = r.c]
    /\ en_i' = en_i + 1
    /\ UNCHANGED <<pc, ret, en_wat, en_dist, en_bcoeff, en_in, otherVars,
                   dmVars, orVars, pdVars>>

\* line 1519
EnergyReturn ==
    /\ pc = "en_loop"
    /\ ~(en_i < solvent_at_sites)
    /\ pc' = "en_done"
    /\ ret' = 1
    /\ UNCHANGED <<otherVars, kernVars>>

NextEnergy == EnergySite \/ EnergyReturn
SpecEnergy == InitEnergy /\ [][NextEnergy]_vars

InEnergy == pc \in {"en_loop", "en_done"}
SitesDone == 0..(en_i - 1)
Cube(d) == d * d * d

\* c is q divided by the positive root of d: same sign, and c^2 * d = q^2
IsOverRoot(c, q, d) ==
    /\ c.den # 0 /\ q.den # 0
    /\ c.num * c.num * d * q.den * q.den = q.num * q.num * c.den * c.den
    /\ (c.num * c.den > 0) = (q.num * q.den > 0)
    /\ (c.num = 0) = (q.num = 0)

\* C11: once row i has been processed, every entry j other than wat + i holds
\* A_old * d^-6 - B * d^-3 in acoeff and q_old / sqrt(d) in chg, d being the
\* entry of dist; with A_old = 1, B = 0, q_old = 1 and d = 1 both are 1.
C11_PairEntriesHoldLennardJonesAndCoulomb ==
    InEnergy =>
      \A i \in SitesDone : \A j \in 0..(n_atoms - 1) :
        (j # en_wat + i) =>
          LET d == en_in.dist[i][j]
              A == en_in.acoeff[i][j].num
              B == en_in.bcoeff[i][j]
              q == en_in.chg[i][j]
          IN  /\ Qeq(en_acoeff[i][j], Q(A - B * Cube(d), Cube(d) * Cube(d)))
              /\ IsOverRoot(en_chg[i][j], q, d)
              /\ (A = 1 /\ B = 0 /\ q = Q(1, 1) /\ d = 1) =>
                    /\ Qeq(en_acoeff[i][j], Q(1, 1))
                    /\ Qeq(en_chg[i][j], Q(1, 1))

C11_Witness ==
    /\ pc = "en_done"
    /\ \E i \in SitesDone : \E j \in 0..(n_atoms - 1) :
          /\ j # en_wat + i
          /\ en_in.dist[i][j] = 1 /\ en_in.acoeff[i][j] = Q(1, 1)
          /\ en_in.bcoeff[i][j] = 0 /\ en_in.chg[i][j] = Q(1, 1)
          /\ Qeq(en_acoeff[i][j], Q(1, 1))
    /\ \E i \in SitesDone : \E j \in 0..(n_atoms - 1) :
          /\ j # en_wat + i
          /\ en_in.dist[i][j] = 4 /\ en_in.bcoeff[i][j] > 0
          /\ en_acoeff[i][j].num < 0
          /\ en_chg[i][j] # en_in.chg[i][j]

\* C12: calculate_energy leaves dist and bcoeff as they were passed in, and
\* in acoeff and chg the entry of row i at column wat + i, where the arrays
\* have that column, keeps the value passed in.
C12_OnlyPairEntriesOfAcoeffAndChgChange ==
    InEnergy =>
      /\ en_dist = en_in.dist
      /\ en_bcoeff = en_in.bcoeff
      /\ \A i \in 0..(solvent_at_sites - 1) :
            (en_wat + i < n_atoms) =>
               /\ en_acoeff[i][en_wat + i] = en_in.acoeff[i][en_wat + i]
               /\ en_chg[i][en_wat + i] = en_in.chg[i][en_wat + i]

C12_Witness ==
    /\ pc = "en_done"
    /\ solvent_at_sites = 2
    /\ en_wat + 0 < n_atoms
    /\ ~(en_wat + 1 < n_atoms)
    /\ en_acoeff # en_in.acoeff
    /\ en_chg # en_in.chg


(***************************************************************************)
(* Further properties of getNNTrEntropy.                                   *)
(***************************************************************************)
KeptCols == {0, 1, 2, 3, 4, 6}
InputsKept ==
    /\ grid_dims' = grid_dims
    /\ voxel_O_coords' = voxel_O_coords
    /\ voxel_quarts' = voxel_quarts

\* C13: getNNTrEntropy changes no column of the voxel table other than 5, 7,
\* 8, 9, 10, 11 and 12, changes no row whose count it has not read yet,
\* leaves the grid dimensions and every coordinate and quaternion list as
\* they were passed in, and returns 0 whatever totals it computed.
C13_OnlyEntropyColumnsWrittenStatusZero ==
    /\ [](InEnt =>
            /\ \A v \in DOMAIN voxel_data : \A c \in KeptCols :
                  voxel_data[v][c] = voxel_data0[v][c]
            /\ \A v \in DOMAIN voxel_data :
                  (v >= voxel) => voxel_data[v] = voxel_data0[v]
            /\ ent_last.ran => ent_last.nw_total = voxel_data0[LastVoxel][4]
            /\ (pc = "ent_done") => ret = 0)
    /\ [][InputsKept]_vars

C13_Witness ==
    /\ pc = "ent_done"
    /\ ret = 0
    /\ ent_acc.dTStranstot # 0
    /\ ent_acc.dTSorienttot # 0
    /\ \E v \in DOMAIN voxel_data :
          \A c \in {5, 7, 8, 9, 10, 11, 12} : voxel_data[v][c] # voxel_data0[v][c]

\* the least element of a non-empty set of numbers
Least(S) == CHOOSE x \in S : \A y \in S : x <= y
\* the sentinel, or the least candidate that is positive and below it
NearestOf(S) ==
    LET ok == {x \in S : x > 0 /\ x < Sentinel}
    IN  IF ok = {} THEN Sentinel ELSE Least(ok)
\* <<voxel, position in its lists>> of every molecule the search for molecule
\* n0 of voxel v covers: the others of v and all of the voxels that share a
\* face or an edge with v
Candidates(v, n0) ==
    { <<v, j>> : j \in DOMAIN voxel_O_coords[v] \ {n0 + 1} }
    \cup
    UNION { { <<Flat(Shifted(v, o, grid_dims), grid_dims), j>> :
                j \in DOMAIN voxel_O_coords[Flat(Shifted(v, o, grid_dims), grid_dims)] } :
            o \in FaceOrEdge }
PosDist(v, n0, c) == dist_squared(voxel_O_coords[v][n0 + 1], voxel_O_coords[c[1]][c[2]])
SixDist(v, n0, c) ==
    quat_angle(voxel_quarts[v][n0 + 1], voxel_quarts[c[1]][c[2]])
        * quat_angle(voxel_quarts[v][n0 + 1], voxel_quarts[c[1]][c[2]])
    + PosDist(v, n0, c)
OffFaceVoxelDone == InEnt /\ ent_last.ran /\ ~OnFace(LastVoxel, grid_dims)

\* C19: for every molecule of a voxel off the boundary, NNd after the scans
\* is the least squared distance that is positive (and below 10000) among the
\* other molecules of its voxel and all molecules of the voxels sharing a face
\* or an edge with it, or 10000 when there is none; a candidate at distance 0
\* is passed over; NNs is the same with angle^2 + squared distance.
C19_NearestIsLeastPositiveCandidate ==
    OffFaceVoxelDone =>
       \A n0 \in DOMAIN LastMols :
          /\ LastMols[n0].NNd =
                NearestOf({ PosDist(LastVoxel, n0, c) : c \in Candidates(LastVoxel, n0) })
          /\ LastMols[n0].NNs =
                NearestOf({ SixDist(LastVoxel, n0, c) : c \in Candidates(LastVoxel, n0) })

\* a molecule with a same-voxel candidate at distance 0 and the nearest one
\* in another voxel, and one whose only candidates are at distance 0
C19_Witness ==
    /\ OffFaceVoxelDone
    /\ ent_last.nw_total = 2
    /\ PosDist(LastVoxel, 0, <<LastVoxel, 2>>) = 0
    /\ SixDist(LastVoxel, 0, <<LastVoxel, 2>>) = 0
    /\ LastMols[0].same.NNd = Sentinel
    /\ LastMols[0].NNd = 1
    /\ LastMols[0].NNs > 1 /\ LastMols[0].NNs < Sentinel

Updated(m) == m.NNd # Sentinel /\ m.NNs # Sentinel

\* C20 as stated: a molecule of a voxel off the boundary adds a translational
\* and a six-dimensional term exactly when NNd and NNs left their sentinel.
C20_TermsExactlyWhenUpdated ==
    OffFaceVoxelDone =>
       \A n0 \in DOMAIN LastMols : LastMols[n0].trans = Updated(LastMols[n0])

\* C20 amended: a molecule of a voxel off the boundary adds one translational
\* and one six-dimensional term exactly when the root of NNd is above 0 and
\* below 3; an NNd updated to a distance of 3 or more adds nothing, and the
\* value of NNs decides nothing.
C20_TermsExactlyWhenRootBelowCutoff ==
    OffFaceVoxelDone =>
       /\ \A n0 \in DOMAIN LastMols :
             /\ LastMols[n0].trans =
                   (LastMols[n0].NNd > 0 /\ LastMols[n0].NNd < NNdLimit * NNdLimit)
             /\ ~LastMols[n0].trans => (LastMols[n0].dbl_t = 0 /\ LastMols[n0].dbl_s = 0)
       /\ ent_last.raw.trans =
             voxel_data0[LastVoxel][8] + SumOver(LastMols, ent_last.nw_total, "dbl_t")
       /\ ent_last.raw.six =
             voxel_data0[LastVoxel][12] + SumOver(LastMols, ent_last.nw_total, "dbl_s")

\* one molecule whose nearest neighbour is at distance 3 and adds nothing,
\* and, in the same voxel, none that adds a term
C20_Witness ==
    /\ OffFaceVoxelDone
    /\ \E n0 \in DOMAIN LastMols :
          /\ Updated(LastMols[n0])
          /\ LastMols[n0].NNd = NNdLimit * NNdLimit
          /\ ~LastMols[n0].trans
    /\ NoTransTermAdded


(***************************************************************************)
(* getNNOrEntropy, lines 408-456.                                          *)
(*                                                                         *)
(* Angles, cosines and distances are in thousandths.  The Euler angles of  *)
(* the model are whole quarter turns, where the cosine is 1, 0, -1 or 0.   *)
(***************************************************************************)
MaxOr == 3          \* rows of the Euler-angle array; the count passed is 0..MaxOr
NNorStart == 10000
NNorLimit == 9999

QuarterTurn == pi \div 2
cos(a) == << Milli, 0, 0 - Milli, 0 >>[((a \div QuarterTurn) % 4) + 1]

\* lines 433-436: the difference of two azimuthal angles, folded
fold(r) == IF r > pi THEN twopi - r ELSE IF r < 0 - pi THEN twopi + r ELSE r

\* lines 430-437: dW for the rows El and En
or_distance(El, En) ==
    LET rx == cos(El[1]) - cos(En[1])
        ry == fold(El[2] - En[2])
        rz == fold(El[3] - En[3])
    IN  sqrt(rx * rx + ry * ry + rz * rz)

\* line 441 without the test dW > 0
or_update_any(NNor, dW) == IF dW < NNor THEN dW ELSE NNor

\* line 441
or_update(NNor, dW) == IF dW > 0 /\ dW < NNor THEN dW ELSE NNor

\* lines 427-443: the inner loop from l on
RECURSIVE or_inner_loop(_, _, _, _, _)
or_inner_loop(l, n, nwtot, E, NNor) ==
    IF ~(l < nwtot) THEN NNor
    ELSE or_inner_loop(l + 1, n, nwtot, E,
             IF l = n THEN NNor
             ELSE or_update(NNor, or_distance(E[l + 1], E[n + 1])))

\* line 445
or_term_accepted(NNor) == NNor < Real(NNorLimit) /\ NNor > 0

\* line 449: log(nwtot * NNor^3 / (3 * twopi)), NNor taken in hundredths
wat_or_ent(nwtot, NNor) ==
    log(nwtot * (NNor \div 10) * (NNor \div 10) * (NNor \div 10), 3 * twopi * Milli)

\* lines 426-451: what the pass for molecule n finds and adds
or_molecule(n, nwtot, E, NNor) ==
    [NNor  |-> NNor,
     added |-> or_term_accepted(NNor),
     term  |-> IF or_term_accepted(NNor) THEN wat_or_ent(nwtot, NNor) ELSE 0]

EulerRows ==
    { << t * QuarterTurn, p * QuarterTurn, s * QuarterTurn >> :
        t \in {0, 1}, p \in {0, 1, 3}, s \in {0, 3} }

InitOr ==
    /\ pc = "or_loop"
    /\ ret = NoRet
    /\ or_nwtot \in 0..MaxOr
    /\ voxel_wat_Eulers \in [1..MaxOr -> EulerRows]
    /\ or_n = 0
    /\ voxel_dTSor = 0
    /\ or_terms = << >>
    /\ MicIdle /\ AssignIdle /\ EntIdle
    /\ EnergyIdle /\ DistMatrixIdle /\ PairIdle

\* lines 425-452: one pass of the outer loop
OrMolecule ==
    /\ pc = "or_loop"
    /\ or_n < or_nwtot
    /\ LET m == or_molecule(or_n, or_nwtot, voxel_wat_Eulers,
                    or_inner_loop(0, or_n, or_nwtot, voxel_wat_Eulers, Real(NNorStart)))
       IN  /\ voxel_dTSor' = voxel_dTSor + m.term
           /\ or_terms' = Append(or_terms, m)
    /\ or_n' = or_n + 1
    /\ UNCHANGED <<pc, ret, or_nwtot, voxel_wat_Eulers, otherVars,
                   energyVars, dmVars, pdVars>>

\* line 455
OrReturn ==
    /\ pc = "or_loop"
    /\ ~(or_n < or_nwtot)
    /\ pc' = "or_done"
    /\ ret' = voxel_dTSor
    /\ UNCHANGED <<otherVars, kernVars>>

NextOr == OrMolecule \/ OrReturn
SpecOr == InitOr /\ [][NextOr]_vars

InOr == pc \in {"or_loop", "or_done"}
\* the positive orientational distances from molecule n to the others
PositiveOrDistances(n) ==
    { d \in { or_distance(voxel_wat_Eulers[l + 1], voxel_wat_Eulers[n + 1]) :
                l \in (0..(or_nwtot - 1)) \ {n} } : d > 0 }
RECURSIVE SumTerms(_)
SumTerms(ts) == IF ts = << >> THEN 0 ELSE Head(ts).term + SumTerms(Tail(ts))
AllRowsEqual ==
    \A n, l \in 0..(or_nwtot - 1) : voxel_wat_Eulers[n + 1] = voxel_wat_Eulers[l + 1]

\* C14: getNNOrEntropy adds one log term for each molecule n < N that has
\* another molecule l < N at positive orientational distance, the term being
\* log(N * d^3 / (3 * 2pi)) for the least such distance d, and adds nothing
\* for any other molecule; the value returned is the sum of these terms, so
\* it is 0 when N < 2 and when all Euler angles are identical.
C14_OneTermPerMoleculeWithPositiveNeighbour ==
    InOr =>
       /\ Len(or_terms) = or_n
       /\ \A n \in 0..(or_n - 1) :
             LET P == PositiveOrDistances(n)
             IN  /\ or_terms[n + 1].added = (P # {})
                 /\ or_terms[n + 1].term =
                       (IF P # {} THEN wat_or_ent(or_nwtot, Least(P)) ELSE 0)
       /\ voxel_dTSor = SumTerms(or_terms)
       /\ (pc = "or_done") =>
             /\ ret = voxel_dTSor
             /\ or_n = or_nwtot \/ or_nwtot < 0
             /\ (or_nwtot < 2 \/ AllRowsEqual) => ret = 0

\* three molecules, two of them with the same angles; each adds a term
C14_Witness ==
    /\ pc = "or_done"
    /\ or_nwtot = 3
    /\ voxel_wat_Eulers[1] = voxel_wat_Eulers[2]
    /\ voxel_wat_Eulers[1] # voxel_wat_Eulers[3]
    /\ \A n \in 1..3 : or_terms[n].added /\ or_terms[n].term # 0
    /\ or_distance(voxel_wat_Eulers[2], voxel_wat_Eulers[1]) = 0
    /\ or_terms[1].NNor = or_distance(voxel_wat_Eulers[3], voxel_wat_Eulers[1])
    /\ ret # 0


(***************************************************************************)
(* get_dist_matrix, lines 1430-1463.  Coordinates are whole numbers, the   *)
(* distances are in thousandths, rounded down.                             *)
(***************************************************************************)
MaxPts     == 3     \* the number of points is 0..MaxPts
MaxDMCoord == 1     \* x coordinates are 0..MaxDMCoord

\* lines 191-200
dist(x1, x2, x3, y1, y2, y3) ==
    LET dx == x1 - y1
        dy == x2 - y2
        dz == x3 - y3
    IN  sqrt(Real(Real(dx * dx + dy * dy + dz * dz)))

\* line 1453 with the test removed
dm_skips_never(l, n) == FALSE

\* line 1453
dm_skips(l, n) == l = n

\* line 1459 with += for =
dm_store_add(old, dR) == old + dR

\* line 1459: the entry after the store
dm_store(old, dR) == dR

\* lines 1447-1460: row n of the matrix after the inner loop
dm_row(n, nwtot, wat_coords, row) ==
    LET nx == wat_coords[n][1]
        ny == wat_coords[n][2]
        nz == wat_coords[n][3]
    IN  [l \in DOMAIN row |->
            IF l < nwtot /\ ~dm_skips(l, n)
            THEN dm_store(row[l], dist(nx, ny, nz, wat_coords[l][1], wat_coords[l][2],
                                       wat_coords[l][3]))
            ELSE row[l]]

DMPoints == (0..MaxDMCoord) \X {0, 2} \X {0, 1}
\* a matrix that is not symmetric and has no zero entry
UsedMatrix(N) == [i \in 0..(N - 1) |-> [l \in 0..(N - 1) |-> Real(7) + 2 * i - l]]
ZeroMatrix(N) == [i \in 0..(N - 1) |-> [l \in 0..(N - 1) |-> 0]]

InitDistMatrix ==
    /\ pc = "dm_loop"
    /\ ret = NoRet
    /\ dm_nwtot \in 0..MaxPts
    /\ dm_coords \in [0..(dm_nwtot - 1) -> DMPoints]
    /\ dm_coords0 = dm_coords
    /\ dist_matrix \in {ZeroMatrix(dm_nwtot), UsedMatrix(dm_nwtot)}
    /\ dist_matrix0 = dist_matrix
    /\ dm_n = 0
    /\ MicIdle /\ AssignIdle /\ EntIdle
    /\ EnergyIdle /\ OrIdle /\ PairIdle

\* lines 1445-1461: one pass of the outer loop
DistMatrixRow ==
    /\ pc = "dm_loop"
    /\ dm_n < dm_nwtot
    /\ dist_matrix' = [dist_matrix EXCEPT
                          ![dm_n] = dm_row(dm_n, dm_nwtot, dm_coords, dist_matrix[dm_n])]
    /\ dm_n' = dm_n + 1
    /\ UNCHANGED <<pc, ret, dm_nwtot, dm_coords, dm_coords0, dist_matrix0, otherVars,
                   energyVars, orVars, pdVars>>

\* line 1462
DistMatrixReturn ==
    /\ pc = "dm_loop"
    /\ ~(dm_n < dm_nwtot)
    /\ pc' = "dm_done"
    /\ ret' = 1
    /\ UNCHANGED <<otherVars, kernVars>>

NextDistMatrix == DistMatrixRow \/ DistMatrixReturn
SpecDistMatrix == InitDistMatrix /\ [][NextDistMatrix]_vars

InDistMatrix == pc \in {"dm_loop", "dm_done"}
DMIndex == 0..(dm_nwtot - 1)
SqDistance(p, q) ==
    (p[1] - q[1]) * (p[1] - q[1]) + (p[2] - q[2]) * (p[2] - q[2])
        + (p[3] - q[3]) * (p[3] - q[3])
\* r is the root of the whole number s, in thousandths, rounded down
IsRootInMilli(r, s) ==
    /\ r >= 0
    /\ r * r <= s * Milli * Milli
    /\ (r + 1) * (r + 1) > s * Milli * Milli

\* C15: every entry off the diagonal of a row already processed holds the
\* Euclidean distance of the two points, whatever it held before, and when
\* get_dist_matrix has returned M[i][l] = M[l][i] for all i # l in [0, N).
C15_OffDiagonalEntriesAreSymmetricDistances ==
    InDistMatrix =>
       /\ \A i \in DMIndex : \A l \in DMIndex :
             (i < dm_n /\ i # l) =>
                IsRootInMilli(dist_matrix[i][l], SqDistance(dm_coords0[i], dm_coords0[l]))
       /\ (pc = "dm_done") =>
             \A i \in DMIndex : \A l \in DMIndex :
                (i # l) => dist_matrix[i][l] = dist_matrix[l][i]

C15_Witness ==
    /\ pc = "dm_done"
    /\ dm_nwtot = 3
    /\ dist_matrix0 = UsedMatrix(3)
    /\ dist_matrix[0][1] = Milli
    /\ dist_matrix[1][0] = Milli
    /\ dist_matrix[0][2] = 2 * Milli
    /\ dist_matrix[1][2] > 2 * Milli
    /\ dist_matrix[2][1] = dist_matrix[1][2]

\* C16: get_dist_matrix changes no entry on the diagonal of the matrix and
\* no coordinate.
C16_DiagonalAndCoordinatesKept ==
    InDistMatrix =>
       /\ \A i \in DMIndex : dist_matrix[i][i] = dist_matrix0[i][i]
       /\ dm_coords = dm_coords0
       /\ \A i \in DMIndex : (i >= dm_n) => dist_matrix[i] = dist_matrix0[i]

C16_Witness ==
    /\ pc = "dm_done"
    /\ dm_nwtot = 2
    /\ dist_matrix0 = UsedMatrix(2)
    /\ dist_matrix[0][0] = Real(7)
    /\ dist_matrix[1][1] = Real(7) + 1
    /\ dist_matrix[0][1] # dist_matrix0[0][1]
    /\ dist_matrix[1][0] # dist_matrix0[1][0]


(***************************************************************************)
(* get_pairwise_distances, lines 314-407.                                  *)
(*                                                                         *)
(* In the calls of this section the unit of length is half the tolerance   *)
(* of lines 349-354, so that the 0.000001 of the code is 2.  No entry of a *)
(* cell of the model is at the tolerance itself, where the float nearest   *)
(* to 0.000001 and the double the code compares it with differ.            *)
(* Distances are exact rationals [num, den]; den = 0 is a value that is    *)
(* not finite.                                                             *)
(***************************************************************************)
MaxEdge    == 3     \* the diagonal entries of the cell are 2..MaxEdge
MaxPdSites == 2     \* rows of dist_array: 0..MaxPdSites
OrthoTol   == 2

Qadd(a, b) == Q(a.num * b.den + b.num * a.den, a.den * b.den)

\* lines 349-354 without the test of uc_vec[7]
cell_is_ortho_five(uc) ==
    /\ uc[2] < OrthoTol /\ uc[2] > 0 - OrthoTol
    /\ uc[3] < OrthoTol /\ uc[3] > 0 - OrthoTol
    /\ uc[4] < OrthoTol /\ uc[4] > 0 - OrthoTol
    /\ uc[6] < OrthoTol /\ uc[6] > 0 - OrthoTol
    /\ uc[7] < OrthoTol /\ uc[7] > 0 - OrthoTol

\* lines 349-354; uc_vec[k] of the code is uc[k + 1]
cell_is_ortho(uc) ==
    /\ uc[2] < OrthoTol /\ uc[2] > 0 - OrthoTol
    /\ uc[3] < OrthoTol /\ uc[3] > 0 - OrthoTol
    /\ uc[4] < OrthoTol /\ uc[4] > 0 - OrthoTol
    /\ uc[6] < OrthoTol /\ uc[6] > 0 - OrthoTol
    /\ uc[7] < OrthoTol /\ uc[7] > 0 - OrthoTol
    /\ uc[8] < OrthoTol /\ uc[8] > 0 - OrthoTol

ZeroMatrix9 == << 0, 0, 0, 0, 0, 0, 0, 0, 0 >>
UnitMatrix9 == << 1, 0, 0, 0, 1, 0, 0, 0, 1 >>

\* What inv_uc_vec holds after lines 58-69 when the library call of line 59
\* comes back without an inverse: the array inva of line 51 was never
\* assigned, or was filled with quotients by the zero pivot.
IndeterminateInverses ==
    { [num |-> ZeroMatrix9, den |-> 1], [num |-> UnitMatrix9, den |-> 1],
      [num |-> ZeroMatrix9, den |-> 0] }

\* lines 43-76 as the call of line 360 sees them.  The function tests
\* neither the matrix nor the status of the two library calls.  For a
\* singular matrix the library either ends the process through its error
\* handler (returns = FALSE) or comes back, and the copy of lines 61-69 is
\* made from whatever inva holds.
invert_matrix_outcomes(m) ==
    IF Det3(m) # 0
    THEN { [returns |-> TRUE, inverse |-> invert_matrix(m)] }
    ELSE { [returns |-> FALSE, inverse |-> Idle] }
         \cup { [returns |-> TRUE, inverse |-> g] : g \in IndeterminateInverses }

\* lines 392-399: the routine called for a pair, and d
pair_distance(ortho, x, y, uc, inv) ==
    IF ortho
    THEN [op |-> "dist_mic_squared", d |-> Q(dist_mic_squared(x, y, BoxOf(uc)), 1)]
    ELSE [op |-> "dist_mic_tric_squared",
          d  |-> IF inv.den = 0 THEN Q(1, 0)
                 ELSE LET t == dist_mic_tric_squared(x, y, uc, inv)
                      IN  Q(t.num, t.den)]

wat_sites == IF dist_array = Idle THEN 0 ELSE Cardinality(DOMAIN dist_array)
num_target_at == Len(pd_targets)

OffDiagonal == {2, 3, 4, 6, 7, 8}
CellWith(L, off) == [k \in 1..9 |-> IF k \in {1, 5, 9} THEN L ELSE off[k]]
\* a cell whose first two rows are parallel
SingularCell(L) == << L, L * L, 0, 1, L, 0, 0, 0, L >>
PdCells ==
    UNION { { CellWith(L, [k \in 1..9 |-> 0]), SingularCell(L) }
            \cup { CellWith(L, [k \in 1..9 |-> e]) : e \in {OrthoTol - 1, 1 - OrthoTol} }
            \cup { CellWith(L, [k \in 1..9 |-> IF k = j THEN e ELSE 0]) :
                     j \in OffDiagonal, e \in {OrthoTol + 1, 0 - OrthoTol - 1} } :
            L \in 2..MaxEdge }
PdPoints == { <<0, 0, 0>>, <<1, 0, 3>>, <<5, 1, 2>> }
PdAtoms == 0..2

InitPair ==
    /\ pc = "pd_start"
    /\ ret = NoRet
    /\ pd_uc \in PdCells
    /\ pd_coords \in { c \in [PdAtoms -> PdPoints] : c[0] = <<0, 0, 0>> }
    /\ pd_wat \in 0..1
    /\ pd_targets \in { << >>, << 0 >>, << 2, 0 >> }
    /\ \E S \in 0..MaxPdSites, prior \in {0, 5} :
          /\ pd_wat + S <= Cardinality(PdAtoms)
          /\ dist_array = [i \in 0..(S - 1) |->
                             [t \in 0..(Len(pd_targets) - 1) |-> Q(prior, 1)]]
    /\ dist_array0 = dist_array
    /\ is_ortho = FALSE
    /\ inv_uc_vec = Idle
    /\ pd_pair = 0
    /\ pd_log = << >>
    /\ MicIdle /\ AssignIdle /\ EntIdle
    /\ EnergyIdle /\ DistMatrixIdle /\ OrIdle

pdInputs == <<pd_wat, pd_targets, pd_coords, pd_uc, dist_array0>>

\* lines 339-374: the cell is read and classified and, unless it is
\* orthorhombic, inverted
PairSetup ==
    /\ pc = "pd_start"
    /\ is_ortho' = cell_is_ortho(pd_uc)
    /\ IF cell_is_ortho(pd_uc)
       THEN /\ pc' = "pd_loop"
            /\ UNCHANGED <<inv_uc_vec, pd_log>>
       ELSE \E r \in invert_matrix_outcomes(pd_uc) :
               /\ pc' = IF r.returns THEN "pd_loop" ELSE "pd_aborted"
               /\ inv_uc_vec' = r.inverse
               /\ pd_log' = Append(pd_log, [op |-> "invert_matrix"])
    /\ UNCHANGED <<ret, pdInputs, dist_array, pd_pair, otherVars,
                   energyVars, dmVars, orVars>>

\* lines 376-402: the body of the inner loop for the pair numbered pd_pair
PairDistance ==
    /\ pc = "pd_loop"
    /\ pd_pair < wat_sites * num_target_at
    /\ LET wat_atom == pd_pair \div num_target_at
           target_at == pd_pair % num_target_at
           wat_atom_id == pd_wat + wat_atom
           target_at_id == pd_targets[target_at + 1]
           r == pair_distance(is_ortho, pd_coords[wat_atom_id], pd_coords[target_at_id],
                              pd_uc, inv_uc_vec)
       IN  /\ dist_array' = [dist_array EXCEPT
                                ![wat_atom][target_at] = Qadd(@, r.d)]
           /\ pd_log' = Append(pd_log, [op |-> r.op, wat_atom |-> wat_atom,
                                        target_at |-> target_at, d |-> r.d])
    /\ pd_pair' = pd_pair + 1
    /\ UNCHANGED <<pc, ret, pdInputs, is_ortho, inv_uc_vec, otherVars,
                   energyVars, dmVars, orVars>>

\* line 405
PairReturn ==
    /\ pc = "pd_loop"
    /\ ~(pd_pair < wat_sites * num_target_at)
    /\ pc' = "pd_done"
    /\ ret' = 1
    /\ UNCHANGED <<otherVars, kernVars>>

NextPair == PairSetup \/ PairDistance \/ PairReturn
SpecPair == InitPair /\ [][NextPair]_vars

InPair == pc \in {"pd_start", "pd_loop", "pd_aborted", "pd_done"}
Classified == pc \in {"pd_loop", "pd_aborted", "pd_done"}
Inversions == { k \in 1..Len(pd_log) : pd_log[k].op = "invert_matrix" }
DistanceCalls == (1..Len(pd_log)) \ Inversions
AllWithinTolerance == \A k \in OffDiagonal : Abs(pd_uc[k]) < OrthoTol
CoordsOfPair(e) ==
    << pd_coords[pd_wat + e.wat_atom], pd_coords[pd_targets[e.target_at + 1]] >>

\* C17: the cell is taken as orthorhombic exactly when all six off-diagonal
\* entries are within the tolerance; then the inverse is never computed and
\* every pair gets the distance dist_mic_squared finds from the three
\* diagonal entries; otherwise the inverse is computed once, before any
\* distance, and every pair goes through dist_mic_tric_squared; on return
\* every pair has been given its distance once.
C17_OrthoExactlyWithinToleranceInverseOnce ==
    (InPair /\ Classified) =>
       /\ is_ortho = AllWithinTolerance
       /\ is_ortho =>
             /\ Inversions = {}
             /\ inv_uc_vec = Idle
             /\ \A k \in DistanceCalls :
                   /\ pd_log[k].op = "dist_mic_squared"
                   /\ pd_log[k].d =
                         Q(dist_mic_squared(CoordsOfPair(pd_log[k])[1],
                                            CoordsOfPair(pd_log[k])[2],
                                            << pd_uc[1], pd_uc[5], pd_uc[9] >>), 1)
       /\ ~is_ortho =>
             /\ Inversions = {1}
             /\ \A k \in DistanceCalls : pd_log[k].op = "dist_mic_tric_squared"
       /\ \A k \in DistanceCalls :
             /\ pd_log[k].wat_atom = (k - 1 - Cardinality(Inversions)) \div num_target_at
             /\ pd_log[k].target_at = (k - 1 - Cardinality(Inversions)) % num_target_at
       /\ (pc = "pd_done") =>
             Cardinality(DistanceCalls) = wat_sites * num_target_at

\* a cell with one off-diagonal entry outside the tolerance and four pairs
C17_Witness ==
    /\ pc = "pd_done"
    /\ ~is_ortho
    /\ Det3(pd_uc) # 0
    /\ Cardinality({ k \in OffDiagonal : pd_uc[k] # 0 }) = 1
    /\ Cardinality(DistanceCalls) = 4
    /\ \E k \in DistanceCalls : pd_log[k].d.num # 0

SingularTriclinic == Classified /\ ~is_ortho /\ Det3(pd_uc) = 0

\* C18: for a cell that is not orthorhombic and cannot be inverted the call
\* writes no distance and does not return 1.
C18_SingularCellWritesNothingReturnsNoStatus ==
    (InPair /\ SingularTriclinic) =>
       /\ dist_array = dist_array0
       /\ pc # "pd_done"


(***************************************************************************)
(* The orientational search and the neighbour offsets of getNNTrEntropy.   *)
(***************************************************************************)
AngDist(v, n0, c) == quat_angle(voxel_quarts[v][n0 + 1], voxel_quarts[c[1]][c[2]])

\* C21: for every molecule of a voxel off the boundary NNr is the least
\* positive angle to the other molecules of its voxel and to the molecules of
\* the neighbour voxels alike, and the orientational term of the molecule is
\* the one of that minimum.
C21_OrientationalSearchCoversNeighbours ==
    OffFaceVoxelDone =>
       \A n0 \in DOMAIN LastMols :
          /\ LastMols[n0].NNr =
                NearestOf({ AngDist(LastVoxel, n0, c) : c \in Candidates(LastVoxel, n0) })
          /\ LastMols[n0].orient =
                or_accepts(ent_last.nw_total,
                    NearestOf({ AngDist(LastVoxel, n0, c) :
                                  c \in Candidates(LastVoxel, n0) }))

OffsetsRead(n0) == { r.off : r \in LastMols[n0].reads }
VoxelsRead(n0) == { r.idx : r \in LastMols[n0].reads }
NonZero(o) == Cardinality({a \in Axes : o[a] # 0})
Faces == { o \in {-1, 0, 1} \X {-1, 0, 1} \X {-1, 0, 1} : NonZero(o) = 1 }
EdgeDiagonals == { o \in {-1, 0, 1} \X {-1, 0, 1} \X {-1, 0, 1} : NonZero(o) = 2 }
Corners == { o \in {-1, 0, 1} \X {-1, 0, 1} \X {-1, 0, 1} : NonZero(o) = 3 }
VoxelAt(v, o) == Flat(Shifted(v, o, grid_dims), grid_dims)
\* the candidates of the voxel itself and of each offset of O, each voxel once
CandidatesAt(v, n0, O) ==
    { <<v, j>> : j \in DOMAIN voxel_O_coords[v] \ {n0 + 1} }
    \cup UNION { { <<VoxelAt(v, o), j>> : j \in DOMAIN voxel_O_coords[VoxelAt(v, o)] } :
                 o \in O }

\* C22: for a voxel off the boundary the offsets scanned are the 18 with one
\* or two non-zero components and no other; the voxels at the 8 corner
\* offsets are not read, and NNd and NNs are what one scan of each of the 18
\* voxels gives, whatever the corner voxels hold.
C22_EighteenOffsetsNoCorner ==
    OffFaceVoxelDone =>
       \A n0 \in DOMAIN LastMols :
          /\ OffsetsRead(n0) = Faces \cup EdgeDiagonals
          /\ Cardinality(OffsetsRead(n0)) = 18
          /\ OffsetsRead(n0) \cap Corners = {}
          /\ \A o \in Corners : VoxelAt(LastVoxel, o) \notin VoxelsRead(n0)
          /\ LastMols[n0].NNd =
                NearestOf({ PosDist(LastVoxel, n0, c) :
                              c \in CandidatesAt(LastVoxel, n0, Faces \cup EdgeDiagonals) })
          /\ LastMols[n0].NNs =
                NearestOf({ SixDist(LastVoxel, n0, c) :
                              c \in CandidatesAt(LastVoxel, n0, Faces \cup EdgeDiagonals) })

\* the only other molecule of the grid sits in a corner voxel, at distance 1
C22_Witness ==
    /\ OffFaceVoxelDone
    /\ ent_last.nw_total = 1
    /\ \E o \in Corners :
          /\ voxel_data[VoxelAt(LastVoxel, o)][4] = 1
          /\ PosDist(LastVoxel, 0, <<VoxelAt(LastVoxel, o), 1>>) = 1
    /\ LastMols[0].NNd = Sentinel
    /\ LastMols[0].NNs = Sentinel
    /\ ~LastMols[0].trans

\* C23 as stated: six face directions and ten diagonal ones, 16 voxels.
C23_SixFacesTenDiagonals ==
    OffFaceVoxelDone =>
       \A n0 \in DOMAIN LastMols :
          /\ Cardinality(OffsetsRead(n0) \cap Faces) = 6
          /\ Cardinality(OffsetsRead(n0) \ Faces) = 10
          /\ Cardinality(VoxelsRead(n0)) = 16

\* C23 amended: the neighbour scan of a voxel off the boundary covers the six
\* face directions and all twelve edge-diagonal directions, 18 distinct
\* voxels, in 20 blocks of which two repeat an earlier one.
C23_SixFacesTwelveDiagonals ==
    OffFaceVoxelDone =>
       \A n0 \in DOMAIN LastMols :
          /\ Cardinality(OffsetsRead(n0) \cap Faces) = 6
          /\ Cardinality(OffsetsRead(n0) \cap EdgeDiagonals) = 12
          /\ OffsetsRead(n0) \subseteq Faces \cup EdgeDiagonals
          /\ Cardinality(VoxelsRead(n0)) = 18
          /\ VoxelsRead(n0) = { VoxelAt(LastVoxel, o) : o \in Faces \cup EdgeDiagonals }
          /\ Len(NbrOffsets) = 20
          /\ Cardinality({ k \in 1..Len(NbrOffsets) :
                             \E j \in 1..(k - 1) : NbrOffsets[j] = NbrOffsets[k] }) = 2

\* a molecule whose nearest neighbour is in the voxel at an edge diagonal
C23_Witness ==
    /\ OffFaceVoxelDone
    /\ ent_last.nw_total = 1
    /\ \E o \in EdgeDiagonals :
          /\ voxel_data[VoxelAt(LastVoxel, o)][4] = 1
          /\ PosDist(LastVoxel, 0, <<VoxelAt(LastVoxel, o), 1>>) = 1
    /\ LastMols[0].NNd = 1
    /\ LastMols[0].trans


(***************************************************************************)
(* Direct calls of dist_mic_tric_squared on a sheared cell (lines 88-146). *)
(* The columns of uc_vec are the lattice vectors, as matrix_vector_product *)
(* of line 115 turns fractional coordinates into real ones.                *)
(***************************************************************************)
Shears == { << 1, 0, -1 >>, << -1, 1, 1 >> }
ShearedCell(b, s) == << b[1], s[1], s[2], 0, b[2], s[3], 0, 0, b[3] >>
TricBoxes == { << MaxBox, 1, MaxBox >>, << 1, MaxBox, 1 >>, << MaxBox, MaxBox, MaxBox >> }
TricPoints == [Axes -> (-1)..(MaxCoord - 1)]

InitTric ==
    /\ pc = "tric_start"
    /\ ret = NoRet
    /\ \E b \in TricBoxes : \E s \in Shears : uc_vec = ShearedCell(b, s)
    /\ \E x \in TricPoints : mic_x = Tup(x)
    /\ \E y \in Points : mic_y = Tup(y)
    /\ d_ortho = 0
    /\ d_tric = Idle
    /\ mic_ops = << >>
    /\ AssignIdle
    /\ EntIdle
    /\ KernIdle

\* d = dist_mic_tric_squared(x, y, uc_vec, inv_uc_vec)
TricCall ==
    /\ pc = "tric_start"
    /\ d_tric' = dist_mic_tric_squared(mic_x, mic_y, uc_vec, invert_matrix(uc_vec))
    /\ pc' = "tric_done"
    /\ UNCHANGED <<ret, uc_vec, mic_x, mic_y, d_ortho, mic_ops, assignVars, entVars, kernVars>>

\* dist_mic_tric_squared called again with the two points exchanged
TricSwap ==
    /\ pc = "tric_done"
    /\ mic_ops = << >>
    /\ mic_x' = mic_y
    /\ mic_y' = mic_x
    /\ d_tric' = dist_mic_tric_squared(mic_y, mic_x, uc_vec, invert_matrix(uc_vec))
    /\ mic_ops' = << "swap" >>
    /\ UNCHANGED <<pc, ret, uc_vec, d_ortho, assignVars, entVars, kernVars>>

NextTric == TricCall \/ TricSwap
SpecTric == InitTric /\ [][NextTric]_vars

\* The fractional coordinates n / den of a point, reduced to [0, 1): numerators
\* over den.
InCell(p, uc) ==
    LET inv == invert_matrix(uc)
        f == matrix_vector_product(inv.num, p)
    IN  << f[1] - inv.den * (f[1] \div inv.den),
           f[2] - inv.den * (f[2] \div inv.den),
           f[3] - inv.den * (f[3] \div inv.den) >>
LatticeShifts == { << i, j, k >> : i \in {-1, 0, 1}, j \in {-1, 0, 1}, k \in {-1, 0, 1} }
\* squared real-space distances, times den^2, from the wrapped x to the wrapped
\* y shifted by the cells of N
ShiftedDist2(x, y, uc, N) ==
    LET den == Det3(uc)
        xr == matrix_vector_product(uc, InCell(x, uc))
        yw == InCell(y, uc)
    IN  { SqNorm(xr, matrix_vector_product(uc, << yw[1] + n[1] * den, yw[2] + n[2] * den,
                                                  yw[3] + n[3] * den >>)) : n \in N }
Wrapped(p, uc) == \A a \in Axes : 0 <= InCell(p, uc)[a] /\ InCell(p, uc)[a] < Det3(uc)

\* C24: dist_mic_tric_squared reduces the fractional coordinates of both points
\* to [0, 1) and returns the minimum over the 27 shifts n in {-1,0,1}^3 of the
\* second point of the squared real-space distance to the first wrapped point;
\* the value is at most the squared distance of the two wrapped points, and
\* exchanging the two points leaves it unchanged.
C24_TricIsMinimumOverShiftsAndSymmetric ==
    /\ [](pc = "tric_done" =>
            /\ Wrapped(mic_x, uc_vec) /\ Wrapped(mic_y, uc_vec)
            /\ d_tric.den = Det3(uc_vec) * Det3(uc_vec)
            /\ d_tric.num = Least(ShiftedDist2(mic_x, mic_y, uc_vec, LatticeShifts))
            /\ d_tric.num <= Least(ShiftedDist2(mic_x, mic_y, uc_vec, {<< 0, 0, 0 >>})))
    /\ [][(pc = "tric_done" /\ pc' = "tric_done") => d_tric' = d_tric]_vars

\* the first point lies outside the cell, a shifted image is strictly nearer
\* than the wrapped second point, and the exchanged call has been made
C24_Witness ==
    /\ pc = "tric_done"
    /\ mic_ops = << "swap" >>
    /\ \E a \in Axes : mic_y[a] < 0
    /\ d_tric.num > 0
    /\ d_tric.num < Least(ShiftedDist2(mic_x, mic_y, uc_vec, {<< 0, 0, 0 >>}))


(***************************************************************************)
(* The passes of the voxel loop of getNNTrEntropy run as separate tasks,   *)
(* in any order.  A task is the body of the loop of line 504 for one       *)
(* voxel, in two steps: the part that adds to the row (lines 508-1375) and *)
(* the part that normalises it (lines 1378-1401).  A task starts when its   *)
(* voxel is at most MaxAhead beyond the first voxel whose task has not     *)
(* finished.                                                               *)
(***************************************************************************)
MaxAhead == 1

\* lines 508-1375: the row of the voxel once the occupancy and the log terms
\* have been added, b being the pass computed on the table as it is
accumulated_row(row, b) ==
    [row EXCEPT ![5] = b.row[5], ![8] = b.raw.trans, ![10] = b.raw.orient,
                ![12] = b.raw.six]

\* lines 1378-1400: the row after the normalisation of the sums it holds
normalised_row(row, nw_total) ==
    [voxel_write(row, nw_total, << >>, [t |-> 0, o |-> 0, s |-> 0],
                 [trans |-> row[8], orient |-> row[10], six |-> row[12]]).row
        EXCEPT ![5] = row[5]]

\* the stores of a task with column 7 of the following voxel written as well
any_write_next(v, row) ==
    voxel_data' = [voxel_data EXCEPT ![v] = row,
                                     ![(v + 1) % max_voxel_index(grid_dims)][7] = row[8]]

\* every store of lines 514-1400 is to PyArray_GETPTR2(voxel_data, voxel, c)
any_write(v, row) == voxel_data' = [voxel_data EXCEPT ![v] = row]

Pending == { v \in DOMAIN ent_task : ent_task[v] = "pending" }
Running == { v \in DOMAIN ent_task : ent_task[v] = "running" }
\* the voxels not yet started that are at most MaxAhead beyond the first
\* unfinished one
Startable ==
    { v \in Pending : \A u \in DOMAIN ent_task : ent_task[u] # "done" => v <= u + MaxAhead }

AnyStart(dims, F, tab, cls, qls) ==
    /\ pc = "any_given"
    /\ ret = NoRet
    /\ ent_in = Inputs(F)
    /\ grid_dims = dims
    /\ voxel_data = tab
    /\ voxel_data0 = tab
    /\ voxel_O_coords = cls
    /\ voxel_quarts = qls
    /\ voxel = 0
    /\ ent_acc = ZeroAcc
    /\ ent_last = NoVoxel
    /\ ent_divs = {}
    /\ ent_task = [v \in Voxels(dims) |-> "pending"]
    /\ ent_ref = Idle
    /\ MicIdle
    /\ AssignIdle
    /\ KernIdle

\* a 3x3x3 grid: the centre voxel holds one or two molecules, the voxel before
\* or after it along z holds one, and both rows may hold prior values
InitAnyOrder ==
    \E fm \in { << <<0, 0>> >>, << <<0, 0>>, <<MaxPos, 0>> >>, << <<0, 0>>, <<1, MaxAng>> >> },
       x \in 0..MaxPos, g \in { <<1, 1, 0>>, <<1, 1, 2>> }, dirty \in BOOLEAN :
        LET fv == Flat(<<1, 1, 1>>, SmallGrid)
            gv == Flat(g, SmallGrid)
            mol == [v \in Voxels(SmallGrid) |->
                      IF v = fv THEN fm ELSE IF v = gv THEN << <<x, MaxAng>> >> ELSE << >>]
        IN  AnyStart(SmallGrid, 1,
                 [v \in Voxels(SmallGrid) |->
                     Row(v, Len(mol[v]), IF dirty /\ v \in {fv, gv} THEN Milli \div 2 ELSE 0)],
                 [v \in Voxels(SmallGrid) |->
                     [j \in 1..Len(mol[v]) |-> << mol[v][j][1], 0, 0 >>]],
                 [v \in Voxels(SmallGrid) |->
                     [j \in 1..Len(mol[v]) |-> mol[v][j][2]]])

\* the row each pass writes when it runs on the table as passed in
AnyReference ==
    /\ pc = "any_given"
    /\ ent_ref' = [v \in DOMAIN voxel_data |-> voxel_body(v).row]
    /\ pc' = "any_loop"
    /\ UNCHANGED <<ret, ent_in, grid_dims, voxel_data, voxel_data0, voxel_O_coords,
                   voxel_quarts, voxel, ent_acc, ent_last, ent_divs, ent_task,
                   micVars, assignVars, kernVars>>

\* lines 508-1375 for voxel v; the accumulators of lines 464-470 are brought
\* up to date in the same step
any_accumulate(v, b) ==
    /\ any_write(v, accumulated_row(voxel_data[v], b))
    /\ ent_acc' = b.acc
    /\ ent_last' = [ran |-> TRUE, voxel |-> v, nw_total |-> voxel_data[v][4],
                    mols |-> b.mols, raw |-> b.raw]
    /\ ent_divs' = b.divs
    /\ ent_task' = [ent_task EXCEPT ![v] = "running"]

AnyAccumulate ==
    /\ pc = "any_loop"
    /\ \E v \in Startable : any_accumulate(v, voxel_body(v))
    /\ UNCHANGED <<pc, ret, ent_in, grid_dims, voxel_data0, voxel_O_coords,
                   voxel_quarts, voxel, ent_ref, micVars, assignVars, kernVars>>

\* lines 1378-1400 for voxel v
AnyNormalise ==
    /\ pc = "any_loop"
    /\ \E v \in Running :
          /\ any_write(v, normalised_row(voxel_data[v], voxel_data[v][4]))
          /\ ent_task' = [ent_task EXCEPT ![v] = "done"]
    /\ UNCHANGED <<pc, ret, ent_in, grid_dims, voxel_data0, voxel_O_coords,
                   voxel_quarts, voxel, ent_acc, ent_last, ent_divs, ent_ref,
                   micVars, assignVars, kernVars>>

\* lines 1402-1426, once every task has finished
AnyReturn ==
    /\ pc = "any_loop"
    /\ \A v \in DOMAIN ent_task : ent_task[v] = "done"
    /\ ent_acc' = [ent_acc EXCEPT
            !.dTStranstot  = Fmul(@, ent_in.voxel_vol),
            !.dTSorienttot = Fmul(@, ent_in.voxel_vol),
            !.dTSst = IF ent_acc.nwts > 0 THEN normalise(ent_acc.dTSs, ent_acc.nwts) ELSE 0,
            !.dTStt = IF ent_acc.nwts > 0 THEN normalise(ent_acc.dTSt, ent_acc.nwts) ELSE 0,
            !.dTSot = normalise(ent_acc.dTSo, ent_acc.nwtt)]
    /\ pc' = "any_done"
    /\ ret' = 0
    /\ UNCHANGED <<ent_in, grid_dims, voxel_data, voxel_data0, voxel_O_coords,
                   voxel_quarts, voxel, ent_last, ent_divs, ent_task, ent_ref,
                   micVars, assignVars, kernVars>>

NextAnyOrder == AnyReference \/ AnyAccumulate \/ AnyNormalise \/ AnyReturn
SpecAnyOrder == InitAnyOrder /\ [][NextAnyOrder]_vars

\* the row of v is as passed in before its task starts, and what the task alone
\* writes on the table as passed in once it has finished; a task that may start
\* now computes what it computes on the table as passed in
RowsSettled ==
    /\ \A v \in DOMAIN ent_task :
          /\ ent_task[v] = "pending" => voxel_data[v] = voxel_data0[v]
          /\ ent_task[v] = "done" => voxel_data[v] = ent_ref[v]
          /\ \A c \in {0, 1, 2, 3, 4, 6} : voxel_data[v][c] = voxel_data0[v][c]
    /\ \A v \in Startable : voxel_body(v).row = ent_ref[v]
\* a step of a task leaves every other row, every count and the molecule
\* lists as they are
OnlyOwnRowWritten ==
    /\ voxel_O_coords' = voxel_O_coords
    /\ voxel_quarts' = voxel_quarts
    /\ \A u \in DOMAIN ent_task :
          /\ voxel_data'[u][4] = voxel_data[u][4]
          /\ ent_task'[u] = ent_task[u] => voxel_data'[u] = voxel_data[u]

\* C25: the pass over voxel v writes row v only, and what it reads of another
\* voxel, the count of column 4 and the molecule lists, is never written;
\* the table after the call is the same for every order of the passes and
\* every interleaving of their steps.
C25_TableIndependentOfOrder ==
    /\ [](pc \in {"any_loop", "any_done"} => RowsSettled)
    /\ [](pc = "any_done" => voxel_data = ent_ref)
    /\ [][pc = "any_loop" => OnlyOwnRowWritten]_vars

\* the voxel after the centre has finished while the centre, which reads it, is
\* under way, and the nearest neighbour of the centre's molecule lies in it
C25_Witness ==
    /\ pc = "any_loop"
    /\ ent_task[14] = "done" /\ voxel_data[14] # voxel_data0[14]
    /\ ent_task[13] = "running" /\ ent_last.voxel = 13
    /\ 14 \in { r.idx : r \in ent_last.mols[0].reads }
    /\ ent_last.mols[0].trans
    /\ ent_last.nw_total = 1


(***************************************************************************)
(* The occupancy and the normalisation of getNNTrEntropy.                  *)
(***************************************************************************)
\* count / (num_frames * voxel_vol) / ref_dens, lines 511 and 514
Occupancy(nw_total) ==
    Fdiv(Fdiv(Real(nw_total), Fmul(Real(ent_in.num_frames), ent_in.voxel_vol)),
         ent_in.ref_dens)

\* C26: after the call column 5 of every voxel is
\* count / (frames * voxel volume * reference density) of the voxel's count,
\* whatever the column held before.
C26_OccupancyFromCountAlone ==
    pc = "ent_done" =>
        \A v \in DOMAIN voxel_data : voxel_data[v][5] = Occupancy(voxel_data[v][4])

\* C27: column 12 of a voxel is replaced by gas_kcal * temp * (sum / N +
\* euler_masc) exactly when the raw sum of column 8 is not 0, whatever the raw
\* sum of column 12 is; otherwise column 12 keeps its raw sum; column 11 is
\* column 12 * N / (num_frames * voxel_vol) in both cases.
C27_SixNormalisedWhenTransNonZero ==
    (InEnt /\ ent_last.ran) =>
        LET row == voxel_data[LastVoxel]
            raw == ent_last.raw
        IN  /\ raw.trans # 0 => row[12] = normalise(raw.six, ent_last.nw_total)
            /\ raw.trans = 0 => row[12] = raw.six
            /\ row[11] = per_volume(row[12], ent_last.nw_total)

\* a molecule has added its terms, the translational ones sum to 0 and the
\* six-dimensional ones do not
C27_Witness ==
    /\ InEnt /\ ent_last.ran
    /\ \E n0 \in DOMAIN LastMols : LastMols[n0].trans
    /\ ent_last.raw.trans = 0
    /\ ent_last.raw.six # 0
    /\ voxel_data[LastVoxel][12] = ent_last.raw.six

(***************************************************************************)
(* Termination of getNNTrEntropy.  The loop of line 504 is the only one    *)
(* that spans steps of the model; its body and the return are taken        *)
(* whenever they can be, as a running C function does.                     *)
(***************************************************************************)
\* What every step of NextEnt does to the loop variable and to pc: a step of
\* EntVoxel or EntReturn is a step of EntAdvance, and EntAdvance can be taken
\* exactly when one of them can.
EntAdvance ==
    /\ pc = "ent_loop"
    /\ IF voxel < max_voxel_index(grid_dims)
       THEN voxel' = UInt(voxel + 1) /\ pc' = pc
       ELSE voxel' = voxel /\ pc' = "ent_done"
SpecEntropyFair == InitEnt /\ [][NextEnt]_vars /\ WF_<<pc, voxel>>(EntAdvance)

\* a pass of the loop is for the voxel the loop variable names, and goes on to
\* the next index
AscendingPass ==
    (pc = "ent_loop" /\ pc' = "ent_loop") =>
        /\ voxel' = voxel + 1
        /\ ent_last'.ran /\ ent_last'.voxel = voxel
        /\ voxel < grid_dims[1] * grid_dims[2] * grid_dims[3]
        /\ \A n0 \in DOMAIN ent_last'.mols :
              Cardinality(ent_last'.mols[n0].reads) <= Len(NbrOffsets)

Swap(l, i, j) == [l EXCEPT ![i] = l[j], ![j] = l[i]]
\* what a molecule adds to the sums of columns 8, 12 and 10 (lines 583-586,
\* 1368-1373), and whether it adds anything
Term(m) == << m.trans, m.dbl_t, m.dbl_s, m.orient, m.dbl_o >>
\* the terms of the molecules of a voxel, each with the number of molecules
\* that add it
TermBag(mols) ==
    [t \in { Term(mols[i]) : i \in DOMAIN mols } |->
        Cardinality({ i \in DOMAIN mols : Term(mols[i]) = t })]

PermStart(dims, F, tab, cls, qls) ==
    /\ pc = "perm_given"
    /\ ret = NoRet
    /\ ent_in = Inputs(F)
    /\ grid_dims = dims
    /\ voxel_data = tab
    /\ voxel_data0 = tab
    /\ voxel_O_coords = cls
    /\ voxel_quarts = qls
    /\ voxel = 0
    /\ ent_acc = ZeroAcc
    /\ ent_last = NoVoxel
    /\ ent_divs = {}
    /\ ent_task = [v \in Voxels(dims) |-> [j \in 1..Len(cls[v]) |-> j]]
    /\ ent_ref = Idle
    /\ MicIdle
    /\ AssignIdle
    /\ KernIdle

\* a 3x3x3 grid: the centre voxel holds two or three molecules, the voxel
\* before or after it along z holds two
InitPerm ==
    \E fm \in { << <<0, 0>>, <<1, MaxAng>> >>,
                << <<0, 0>>, <<2, MaxAng>>, <<MaxPos, 0>> >> },
       x \in 0..MaxPos, g \in { <<1, 1, 0>>, <<1, 1, 2>> } :
        LET fv == Flat(<<1, 1, 1>>, SmallGrid)
            gv == Flat(g, SmallGrid)
            mol == [v \in Voxels(SmallGrid) |->
                      IF v = fv THEN fm
                      ELSE IF v = gv THEN << <<x, 0>>, <<MaxPos, MaxAng>> >>
                      ELSE << >>]
        IN  PermStart(SmallGrid, 1,
                 [v \in Voxels(SmallGrid) |-> Row(v, Len(mol[v]), 0)],
                 [v \in Voxels(SmallGrid) |->
                     [j \in 1..Len(mol[v]) |-> << mol[v][j][1], 0, 0 >>]],
                 [v \in Voxels(SmallGrid) |->
                     [j \in 1..Len(mol[v]) |-> mol[v][j][2]]])

\* the terms the passes add for the lists as first given
PermReference ==
    /\ pc = "perm_given"
    /\ ent_ref' = [v \in DOMAIN voxel_data |-> TermBag(voxel_body(v).mols)]
    /\ pc' = "perm_start"
    /\ UNCHANGED <<ret, ent_in, grid_dims, voxel_data, voxel_data0, voxel_O_coords,
                   voxel_quarts, voxel, ent_acc, ent_last, ent_divs, ent_task,
                   micVars, assignVars, kernVars>>

\* the caller exchanges two molecules of a voxel in both lists
PermSwap ==
    /\ pc = "perm_start"
    /\ \E v \in DOMAIN voxel_O_coords :
         \E i \in 1..Len(voxel_O_coords[v]), j \in 1..Len(voxel_O_coords[v]) :
            /\ i < j
            /\ voxel_O_coords' = [voxel_O_coords EXCEPT ![v] = Swap(@, i, j)]
            /\ voxel_quarts' = [voxel_quarts EXCEPT ![v] = Swap(@, i, j)]
            /\ ent_task' = [ent_task EXCEPT ![v] = Swap(@, i, j)]
    /\ UNCHANGED <<pc, ret, ent_in, grid_dims, voxel_data, voxel_data0, voxel,
                   ent_acc, ent_last, ent_divs, ent_ref, micVars, assignVars, kernVars>>

\* the call of getNNTrEntropy, lines 458-503
PermCall ==
    /\ pc = "perm_start"
    /\ pc' = "ent_loop"
    /\ UNCHANGED <<ret, micVars, assignVars, entVars, kernVars>>

NextPerm == PermReference \/ PermSwap \/ PermCall \/ EntVoxel \/ EntReturn
SpecPerm == InitPerm /\ [][NextPerm]_vars

\* C29: with the molecules of any voxel given in another order, in the list
\* of positions and the list of orientations alike, the pass over every voxel
\* adds the same terms, each as often, to the sums of columns 8, 12 and 10,
\* for the voxel whose lists were reordered and for the voxel that scans it.
C29_TermsKeptUnderReordering ==
    (InEnt /\ ent_last.ran) => TermBag(LastMols) = ent_ref[LastVoxel]

\* the centre voxel was passed with its three molecules in the order 3, 1, 2
\* and its neighbour with its two exchanged; the pass over the centre added a
\* term from a molecule of the neighbour
C29_Witness ==
    /\ pc = "ent_loop" /\ ent_last.ran /\ LastVoxel = 13
    /\ ent_task[13] = << 3, 1, 2 >>
    /\ \E v \in {12, 14} : ent_task[v] = << 2, 1 >>
    /\ \E n0 \in DOMAIN LastMols :
          /\ LastMols[n0].trans
          /\ LastMols[n0].NNd < LastMols[n0].same.NNd
    /\ \E n0 \in DOMAIN LastMols : LastMols[n0].orient

(***************************************************************************)
(* assign_voxels called with several frames and sites, and with an output  *)
(* list that may hold an entry already.                                    *)
(***************************************************************************)
MaxAFrames == 2     \* frames passed to assign_voxels: 1..MaxAFrames

PriorEntry == << 7, 9 >>
PriorLists == { << >>, << PriorEntry >> }
\* translated coordinates in units of a quarter: inside two different voxels,
\* below the origin inside the tolerance, and on the far face of the grid
SitePoints == { << 1, 0, 1 >>, << 3, 0, 2 >>, << -1, 0, 0 >>, << 4, 0, 0 >> }
SiteIds == { << 0 >>, << 0, 3 >>, << 3, 0 >> }

InitAssignMany ==
    /\ pc = "assign_loop"
    /\ ret = NoRet
    /\ grid_dim \in { << 2, 1, 2 >>, << 2, 2, 2 >> }
    /\ grid_max = << VoxelEdge * grid_dim[1], VoxelEdge * grid_dim[2], VoxelEdge * grid_dim[3] >>
    /\ grid_orig = Origin
    /\ n_frames \in 1..MaxAFrames
    /\ \E ids \in SiteIds :
          /\ n_wat = Len(ids)
          /\ wat_oxygen_ids = [i \in 0..(Len(ids) - 1) |-> ids[i + 1]]
    /\ coords \in [ (0..(n_frames - 1)) \X { wat_oxygen_ids[i] : i \in 0..(n_wat - 1) }
                    -> { << grid_orig[1] + t[1], grid_orig[2] + t[2], grid_orig[3] + t[3] >> :
                           t \in SitePoints } ]
    /\ i_frame = 0
    /\ i_wat = 0
    /\ frame_data \in PriorLists
    /\ assign_last = [ran |-> FALSE, frame |-> 0, wat_id |-> 0, t |-> <<0, 0, 0>>,
                      len_before |-> 0]
    /\ MicIdle
    /\ EntIdle
    /\ KernIdle

SpecAssignMany == InitAssignMany /\ [][NextAssign]_vars

\* the translated coordinate of site w in frame f
SiteAt(f, w) ==
    LET c == coords[<< f, wat_oxygen_ids[w] >>]
    IN  << c[1] - grid_orig[1], c[2] - grid_orig[2], c[3] - grid_orig[3] >>
\* the entry of (f, w), if it has one: a function of the site's coordinate in
\* that frame and of the grid alone
EntryOf(f, w) ==
    LET t == SiteAt(f, w)
    IN  IF \A a \in Axes : 0 <= t[a] /\ t[a] <= grid_max[a] /\ Floor(t[a]) < grid_dim[a]
        THEN << << (Floor(t[1]) * grid_dim[2] + Floor(t[2])) * grid_dim[3] + Floor(t[3]),
                   wat_oxygen_ids[w] >> >>
        ELSE << >>
\* the entries of the first k pairs (frame, site), frames first
RECURSIVE EntriesUpTo(_)
EntriesUpTo(k) ==
    IF k = 0 THEN << >>
    ELSE EntriesUpTo(k - 1) \o EntryOf((k - 1) \div n_wat, (k - 1) % n_wat)

AppendOnly ==
    /\ Len(frame_data') <= Len(frame_data) + 1
    /\ Len(frame_data') >= Len(frame_data)
    /\ SubSeq(frame_data', 1, Len(frame_data)) = frame_data

\* C30: the output list is what it held before the call followed by the
\* entries of the pairs (frame, site) handled so far, frames first and the
\* sites of a frame in the order of wat_oxygen_ids, at most one entry per
\* pair; a step appends at most one entry and leaves the earlier ones as they
\* are; whether a pair has an entry, and with which voxel, is a function of
\* the site's coordinate in that frame and of the grid.
C30_AppendedInFrameThenSiteOrder ==
    /\ [](pc \in {"assign_loop", "assign_done"} =>
            \E prior \in PriorLists :
                frame_data = prior \o EntriesUpTo(i_frame * n_wat + i_wat))
    /\ [][AppendOnly]_vars

\* two frames of two sites whose ids are not ascending, the second site of the
\* first frame rejected, after an entry the list held already
C30_Witness ==
    /\ pc = "assign_done"
    /\ n_frames = 2 /\ n_wat = 2
    /\ Len(frame_data) = 4
    /\ frame_data[1] = PriorEntry
    /\ << frame_data[2][2], frame_data[3][2], frame_data[4][2] >> = << 3, 3, 0 >>
    /\ frame_data[2][1] # frame_data[3][1]

====
